---- MODULE Spec2Model ----
(***************************************************************************)
(* Halfedge mesh graph (Synphonyte/mesh-graph): the mesh container, its    *)
(* insertion / deletion primitives, the face builders, the local manifold  *)
(* repair, the edge collapse and the one-ring merge, as state machines.    *)
(*                                                                         *)
(* Ids.  VertexId / HalfedgeId / FaceId are generational arena keys: an id *)
(* that was removed never compares equal to an id handed out later.  The   *)
(* model hands out fresh naturals (counters nv / nh / nf) and uses 0 for   *)
(* Option::None.  Arenas and secondary maps are functions whose DOMAIN is  *)
(* the set of present keys.                                                *)
(*                                                                         *)
(* A mesh value carries a field "status": "ok", "panic" (an index of a     *)
(* missing key, an unwrap of None, an out-of-range Vec access) or "hang"   *)
(* (a circular iterator that never returns to its start).  Once the status *)
(* is not "ok" the call has not returned and nothing else happens.         *)
(***************************************************************************)
EXTENDS Integers, Sequences, FiniteSets, TLC

VARIABLES mesh, result, last, calls

vars == <<mesh, result, last, calls>>

None == 0

(* ---------------- bounds of the model ---------------- *)
MaxVertexIds == 4
MaxHalfedgeIds == 10
MaxFaceIds == 3
MaxCalls == 4
\* bounds of the neighbourhood-repair specification
MaxRepairVertexIds == 4
MaxRepairHalfedgeIds == 12
MaxRepairFaceIds == 3
MaxRepairCalls == 5
\* the number of collapse_edge calls on the collapse fixture
MaxCollapses == 2

(* ---------------- generic helpers ---------------- *)
\* `let v = ...;` followed by the code K that uses v: v is computed first
Bind(v, K(_)) == CASE {v} # {} -> K(v)

Has(f, k) == k \in DOMAIN f

\* insert or overwrite / remove a key of a map
Put(f, k, v) == (k :> v) @@ f

Del(f, k) == <<>> @@ [x \in (DOMAIN f) \ {k} |-> f[x]]

Range(s) == {s[i] : i \in DOMAIN s}

RECURSIVE SetToAsc(_)
SetToAsc(S) ==
  IF S = {} THEN <<>>
  ELSE Bind(CHOOSE y \in S : \A z \in S : y <= z,
            LAMBDA x : <<x>> \o SetToAsc(S \ {x}))

Reverse(s) == [i \in 1..Len(s) |-> s[Len(s) + 1 - i]]

\* Iteration order of a hash set: unspecified; the model offers both
\* the ascending and the descending order of the ids.
HashOrder(S, rev) == IF rev THEN Reverse(SetToAsc(S)) ELSE SetToAsc(S)

\* Iterator::find / position: the first element of s that satisfies P
FirstIndex(s, P(_)) ==
  Bind({i \in DOMAIN s : P(s[i])},
       LAMBDA idx : IF idx = {} THEN 0 ELSE CHOOSE i \in idx : \A j \in idx : i <= j)

First(s, P(_)) == Bind(FirstIndex(s, P), LAMBDA i : IF i = 0 THEN None ELSE s[i])

Panic(m) == [m EXCEPT !.status = "panic"]
Hang(m) == [m EXCEPT !.status = "hang"]
Ok(m) == m.status = "ok"

(* ---------------- MeshGraph ---------------- *)
\* vertex_normals: None, or Some(map) of which the model keeps the key set
NoNormals == [some |-> FALSE, keys |-> {}]

EmptyMesh ==
  [vertices |-> <<>>, halfedges |-> <<>>, faces |-> <<>>,
   positions |-> <<>>, outgoing_halfedges |-> <<>>,
   vertex_normals |-> NoNormals,
   index_to_face_id |-> <<>>, next_index |-> 0,
   nv |-> 0, nh |-> 0, nf |-> 0, status |-> "ok"]

(* ---------------- element accessors ---------------- *)
\* a field of a halfedge named by an Option<HalfedgeId>: None for None and
\* for an id that is not in the arena
Twin(m, h) == IF h # None /\ Has(m.halfedges, h) THEN m.halfedges[h].twin ELSE None
NextOf(m, h) == IF h # None /\ Has(m.halfedges, h) THEN m.halfedges[h].next ELSE None
EndOf(m, h) == IF h # None /\ Has(m.halfedges, h) THEN m.halfedges[h].end_vertex ELSE None
FaceOf(m, h) == IF h # None /\ Has(m.halfedges, h) THEN m.halfedges[h].face ELSE None

\* Halfedge::start_vertex: the twin's end vertex, None without a (live) twin
start_vertex(m, h) == EndOf(m, Twin(m, h))

\* Halfedge::is_boundary
is_boundary(m, h) == m.halfedges[h].face = None

\* Halfedge::prev: next.next
prev(m, h) == NextOf(m, NextOf(m, h))

\* Halfedge::cw_rotated_neighbour: twin.next
cw_rotated_neighbour(m, h) == NextOf(m, Twin(m, h))

\* Halfedge::ccw_rotated_neighbour: prev.twin
ccw_rotated_neighbour(m, h) == Twin(m, prev(m, h))

(* ---------------- CircularHalfedgesIterator ---------------- *)
\* step functions, as maps from a live halfedge to the next one (or None)
StepNext(m) == [h \in DOMAIN m.halfedges |-> m.halfedges[h].next]
StepCw(m) == [h \in DOMAIN m.halfedges |-> cw_rotated_neighbour(m, h)]

StepOf(step, cur) == IF Has(step, cur) THEN step[cur] ELSE None

RECURSIVE CircularWalk(_, _, _, _)
CircularWalk(step, start, cur, fuel) ==
  IF StepOf(step, cur) = None \/ StepOf(step, cur) = start \/ fuel = 0 THEN <<>>
  ELSE <<StepOf(step, cur)>> \o CircularWalk(step, start, StepOf(step, cur), fuel - 1)

\* the elements the iterator yields; cut off after one element more than a
\* terminating walk can have
CircularHalfedgesIterator(step, start) ==
  IF start = None THEN <<>>
  ELSE <<start>> \o CircularWalk(step, start, start, Cardinality(DOMAIN step) + 1)

\* the iterator never ends: its walk entered a cycle without the start
IterHangs(step, start) ==
  Len(CircularHalfedgesIterator(step, start)) > Cardinality(DOMAIN step) + 1

\* Vertex::outgoing_halfedges (the traversal, not the adjacency list)
VertexOutgoing(m, v) ==
  CircularHalfedgesIterator(StepCw(m), m.vertices[v].outgoing_halfedge)
VertexOutgoingHangs(m, v) ==
  IterHangs(StepCw(m), m.vertices[v].outgoing_halfedge)

\* Face::halfedges
FaceHalfedges(m, f) == CircularHalfedgesIterator(StepNext(m), m.faces[f].halfedge)
FaceHalfedgesHangs(m, f) == IterHangs(StepNext(m), m.faces[f].halfedge)

(* ---------------- insertion primitives (ops/insert.rs) ---------------- *)
insert_vertex(m, position) ==
  [m |-> [m EXCEPT !.nv = @ + 1,
                   !.vertices = Put(@, m.nv + 1, [outgoing_halfedge |-> None]),
                   !.positions = Put(@, m.nv + 1, position),
                   !.outgoing_halfedges = Put(@, m.nv + 1, <<>>)],
   ret |-> m.nv + 1]

\* the adjacency list of a key; the entry of an absent key is vacant
ListOf(m, v) == IF Has(m.outgoing_halfedges, v) THEN m.outgoing_halfedges[v] ELSE <<>>

\* entry(start).expect(..).or_default().push(he_id)
insert_halfedge(m, start, end) ==
  [m |-> [m EXCEPT !.nh = @ + 1,
                   !.halfedges = Put(@, m.nh + 1, [end_vertex |-> end, face |-> None,
                                                   twin |-> None, next |-> None]),
                   !.outgoing_halfedges = Put(@, start, Append(ListOf(m, start), m.nh + 1))],
   ret |-> m.nh + 1]

\* halfedge_from_to: takes &mut self, or_insert_with gives an absent start key
\* an empty list; the first listed live halfedge that ends at `end`
halfedge_from_to(m, start, end) ==
  [m |-> [m EXCEPT !.outgoing_halfedges = Put(@, start, ListOf(m, start))],
   ret |-> First(ListOf(m, start), LAMBDA h : EndOf(m, h) = end)]

InsertOrGetEdge_(m, he1, he2, new1, new2) ==
  [m |-> m, some |-> TRUE, start_to_end_he_id |-> he1, twin_he_id |-> he2,
   new_start_to_end |-> new1, new_twin |-> new2]

\* the match of insert_or_get_edge_inner on the two lookups
InnerMatch(m, start, end, he1, he2) ==
  IF he1 # None /\ he2 # None THEN InsertOrGetEdge_(m, he1, he2, FALSE, FALSE)
  ELSE IF he1 = None /\ he2 = None
  THEN [InsertOrGetEdge_(m, None, None, FALSE, FALSE) EXCEPT !.some = FALSE]
  ELSE Bind(IF he1 # None THEN insert_halfedge(m, end, start)
            ELSE insert_halfedge(m, start, end),
            LAMBDA i : IF he1 # None THEN InsertOrGetEdge_(i.m, he1, i.ret, FALSE, TRUE)
                       ELSE InsertOrGetEdge_(i.m, i.ret, he2, TRUE, FALSE))

insert_or_get_edge_inner(m, start, end) ==
  Bind(halfedge_from_to(m, start, end), LAMBDA r1 :
  Bind(halfedge_from_to(r1.m, end, start), LAMBDA r2 :
    InnerMatch(r2.m, start, end, r1.ret, r2.ret)))

\* the unwrap_or_else closure: both halfedges are new
BothNew(m, start, end) ==
  Bind(insert_halfedge(m, start, end), LAMBDA i1 :
  Bind(insert_halfedge(i1.m, end, start), LAMBDA i2 :
    InsertOrGetEdge_(i2.m, i1.ret, i2.ret, TRUE, TRUE)))

\* the two twin assignments, in the source's order
PairTwins(hs, a, b) == [[hs EXCEPT ![a].twin = b] EXCEPT ![b].twin = a]

\* the canonical outgoing halfedge of a vertex, if the vertex is there
SetOutgoing(vs, v, h) == IF Has(vs, v) THEN [vs EXCEPT ![v].outgoing_halfedge = h] ELSE vs

\* the part of insert_or_get_edge after the edge record r is known
LinkEdge(r, start, end) ==
  [m |-> [r.m EXCEPT !.halfedges = PairTwins(@, r.start_to_end_he_id, r.twin_he_id),
                     !.vertices = SetOutgoing(SetOutgoing(@, start, r.start_to_end_he_id),
                                              end, r.twin_he_id)],
   ret |-> [start_to_end_he_id |-> r.start_to_end_he_id, twin_he_id |-> r.twin_he_id,
            new_start_to_end |-> r.new_start_to_end, new_twin |-> r.new_twin]]

insert_or_get_edge(m, start, end) ==
  Bind(insert_or_get_edge_inner(m, start, end), LAMBDA inner :
  Bind(IF inner.some THEN inner ELSE BothNew(inner.m, start, end), LAMBDA r :
    LinkEdge(r, start, end)))

\* InsertOrGetEdge::created_he_ids
created_he_ids(e) ==
  (IF e.new_start_to_end THEN <<e.start_to_end_he_id>> ELSE <<>>)
  \o (IF e.new_twin THEN <<e.twin_he_id>> ELSE <<>>)

\* one round of the loop of insert_face
SetFaceLink(hs, he, nx, face_id) ==
  IF Has(hs, he) THEN [hs EXCEPT ![he].face = face_id, ![he].next = nx] ELSE hs

\* for comparison: a face numbered by the count of live faces
InsertFaceCountingLive(m, he1, he2, he3) ==
  [m |-> [m EXCEPT !.nf = @ + 1,
                   !.faces = Put(@, m.nf + 1, [halfedge |-> he1, index |-> Cardinality(DOMAIN m.faces)]),
                   !.index_to_face_id = Put(@, Cardinality(DOMAIN m.faces), m.nf + 1),
                   !.next_index = Cardinality(DOMAIN m.faces) + 1,
                   !.halfedges = SetFaceLink(SetFaceLink(SetFaceLink(@, he1, he2, m.nf + 1),
                                                         he2, he3, m.nf + 1),
                                             he3, he1, m.nf + 1)],
   ret |-> m.nf + 1]

insert_face(m, he1, he2, he3) ==
  [m |-> [m EXCEPT !.nf = @ + 1,
                   !.faces = Put(@, m.nf + 1, [halfedge |-> he1, index |-> m.next_index]),
                   !.index_to_face_id = Put(@, m.next_index, m.nf + 1),
                   !.next_index = @ + 1,
                   !.halfedges = SetFaceLink(SetFaceLink(SetFaceLink(@, he1, he2, m.nf + 1),
                                                         he2, he3, m.nf + 1),
                                             he3, he1, m.nf + 1)],
   ret |-> m.nf + 1]

(* ---------------- face builders (ops/create.rs) ---------------- *)
NoFace == [some |-> FALSE, face_id |-> None, halfedge_ids |-> <<>>, vertex_ids |-> <<>>]
SomeFace(f, hes, vs) == [some |-> TRUE, face_id |-> f, halfedge_ids |-> hes, vertex_ids |-> vs]

\* boundary_he: the halfedge if boundary, else its twin if that is boundary
boundary_he(m, he_id) ==
  IF ~Has(m.halfedges, he_id) THEN None
  ELSE IF is_boundary(m, he_id) THEN he_id
  ELSE IF ~Has(m.halfedges, Twin(m, he_id)) THEN None
  ELSE IF is_boundary(m, Twin(m, he_id)) THEN Twin(m, he_id)
  ELSE None

\* the three edges v1 -> v2 -> v3 -> v1 and the face over them
create_face_from_vertices(m, v_id1, v_id2, v_id3) ==
  Bind(insert_or_get_edge(m, v_id1, v_id2), LAMBDA ea :
  Bind(insert_or_get_edge(ea.m, v_id2, v_id3), LAMBDA eb :
  Bind(insert_or_get_edge(eb.m, v_id3, v_id1), LAMBDA ec :
  Bind(insert_face(ec.m, ea.ret.start_to_end_he_id, eb.ret.start_to_end_he_id,
                   ec.ret.start_to_end_he_id), LAMBDA f :
    [m |-> f.m,
     ret |-> SomeFace(f.ret,
                      created_he_ids(ea.ret) \o created_he_ids(eb.ret) \o created_he_ids(ec.ret),
                      <<>>)]))))

\* a builder that inserts two vertices and closes the face on the first one
CreateFaceOnTwoVertices(m, a, b, c) ==
  Bind(insert_vertex(insert_vertex(m, a).m, b).m, LAMBDA m2 :
  Bind(create_face_from_vertices(m2, m.nv + 1, m.nv + 2, m.nv + 1), LAMBDA r :
    [m |-> r.m, ret |-> [r.ret EXCEPT !.vertex_ids = <<m.nv + 1, m.nv + 2, m.nv + 1>>]]))

\* three fresh vertices, then the same calls as create_face_from_vertices;
\* the result also names the vertices
create_face_from_positions(m, a, b, c) ==
  Bind(insert_vertex(insert_vertex(insert_vertex(m, a).m, b).m, c).m, LAMBDA m3 :
  Bind(create_face_from_vertices(m3, m.nv + 1, m.nv + 2, m.nv + 3), LAMBDA r :
    [m |-> r.m, ret |-> [r.ret EXCEPT !.vertex_ids = <<m.nv + 1, m.nv + 2, m.nv + 3>>]]))

\* the new edge `from -> to`, then the face over (he_x, he_y, he_z) where a
\* None stands for the new halfedge; a builder that has no boundary halfedge
\* (he_a_id = None) or no start vertex returns None before it changes anything
AttachFace(m, he_a_id, end_a, vertex_id, start_a) ==
  IF he_a_id = None \/ start_a = None THEN [m |-> m, ret |-> NoFace]
  ELSE Bind(insert_or_get_edge(m, end_a, vertex_id), LAMBDA eb :
       Bind(insert_or_get_edge(eb.m, vertex_id, start_a), LAMBDA ec :
       Bind(insert_face(ec.m, he_a_id, eb.ret.start_to_end_he_id,
                        ec.ret.start_to_end_he_id), LAMBDA f :
         [m |-> f.m,
          ret |-> SomeFace(f.ret, created_he_ids(eb.ret) \o created_he_ids(ec.ret), <<>>)])))

create_face_from_halfedge_and_vertex(m, he_id, vertex_id) ==
  Bind(boundary_he(m, he_id), LAMBDA he_a_id :
    AttachFace(m, he_a_id, EndOf(m, he_a_id), vertex_id, start_vertex(m, he_a_id)))

\* a builder that attaches the face to the given halfedge only if that
\* halfedge itself is boundary
AttachOnlyToBoundary(m, he_id, opposite_vertex_pos) ==
  IF Has(m.halfedges, he_id) /\ is_boundary(m, he_id)
  THEN Bind(insert_vertex(m, opposite_vertex_pos),
            LAMBDA v : create_face_from_halfedge_and_vertex(v.m, he_id, v.ret))
  ELSE [m |-> insert_vertex(m, opposite_vertex_pos).m, ret |-> NoFace]

\* the vertex is inserted before the halfedge is checked
create_face_from_halfedge_and_position(m, he_id, opposite_vertex_pos) ==
  create_face_from_halfedge_and_vertex(insert_vertex(m, opposite_vertex_pos).m, he_id, m.nv + 1)

\* one branch of create_face_from_halfedges: the new edge, then the face over
\* (new edge, x, y); a None among x, y is the `he2.twin?` that fails after
\* the edge was inserted
BridgeFace(m, from, to, x, y) ==
  Bind(insert_or_get_edge(m, from, to), LAMBDA e :
    IF x = None \/ y = None THEN [m |-> e.m, ret |-> NoFace]
    ELSE Bind(insert_face(e.m, e.ret.start_to_end_he_id, x, y), LAMBDA f :
           [m |-> f.m, ret |-> SomeFace(f.ret, created_he_ids(e.ret), <<>>)]))

\* the four cases of create_face_from_halfedges as <<from, to, x, y>>
BridgeCase(he_id1, he_id2, s1, e1, s2, e2, twin2) ==
  IF s1 = e2 THEN <<e1, s2, he_id2, he_id1>>
  ELSE IF s1 = s2 THEN <<e1, e2, twin2, he_id1>>
  ELSE IF e1 = e2 THEN <<s2, s1, he_id1, twin2>>
  ELSE <<e2, s1, he_id1, he_id2>>

BridgeChecked(m, he_id1, he_id2) ==
  IF he_id1 = None \/ he_id2 = None THEN [m |-> m, ret |-> NoFace]
  ELSE IF start_vertex(m, he_id1) = None \/ start_vertex(m, he_id2) = None
  THEN [m |-> m, ret |-> NoFace]
  ELSE Bind(BridgeCase(he_id1, he_id2, start_vertex(m, he_id1), EndOf(m, he_id1),
                       start_vertex(m, he_id2), EndOf(m, he_id2), Twin(m, he_id2)),
            LAMBDA c : BridgeFace(m, c[1], c[2], c[3], c[4]))

\* a builder that bridges the given halfedges themselves, boundary or not
BridgeGivenHalfedges(m, he_id1, he_id2) ==
  BridgeChecked(m, IF Has(m.halfedges, he_id1) THEN he_id1 ELSE None,
                IF Has(m.halfedges, he_id2) THEN he_id2 ELSE None)

create_face_from_halfedges(m, he_id1, he_id2) ==
  BridgeChecked(m, boundary_he(m, he_id1), boundary_he(m, he_id2))

(* ---------------- deletion primitives (ops/delete.rs) ---------------- *)
delete_only_vertex(m, vertex_id) ==
  [m EXCEPT !.outgoing_halfedges = Del(@, vertex_id),
            !.positions = Del(@, vertex_id),
            !.vertex_normals.keys = @ \ {vertex_id},
            !.vertices = Del(@, vertex_id)]

DeleteEarly(m) == [m |-> m, ret |-> [vertices |-> <<>>, halfedges |-> <<>>]]

\* first loop of delete_face: classify each halfedge of the face.
\* hes: the (id, copy) pairs collected before the loop.  Yields the mesh,
\* the touched vertices, the removal set and whether the loop returned early.
RECURSIVE DeleteClassify(_, _, _, _, _)
DeleteClassify(m, hes, face_vertices, deleted, i) ==
  IF i > Len(hes) THEN [m |-> m, vertices |-> face_vertices, deleted |-> deleted, early |-> FALSE]
  ELSE IF ~Has(m.halfedges, hes[i][2].twin)
  THEN [m |-> m, vertices |-> Append(face_vertices, hes[i][2].end_vertex),
        deleted |-> deleted, early |-> TRUE]
  ELSE DeleteClassify(
         IF FaceOf(m, hes[i][2].twin) # None /\ Twin(m, hes[i][2].twin) = hes[i][1]
         THEN [m EXCEPT !.halfedges[hes[i][1]].face = None, !.halfedges[hes[i][1]].next = None]
         ELSE m,
         hes, Append(face_vertices, hes[i][2].end_vertex),
         IF FaceOf(m, hes[i][2].twin) = None THEN deleted \cup {hes[i][1], hes[i][2].twin}
         ELSE IF Twin(m, hes[i][2].twin) # hes[i][1] THEN deleted \cup {hes[i][1]}
         ELSE deleted,
         i + 1)

\* second loop: a touched vertex all of whose listed outgoing halfedges are
\* in the removal set is deleted
RECURSIVE DeleteVertices(_, _, _, _, _)
DeleteVertices(m, face_vertices, deleted, deleted_vertices, i) ==
  IF i > Len(face_vertices) THEN [m |-> m, deleted_vertices |-> deleted_vertices, early |-> FALSE]
  ELSE IF ~Has(m.outgoing_halfedges, face_vertices[i])
  THEN [m |-> m, deleted_vertices |-> deleted_vertices, early |-> TRUE]
  ELSE IF Range(m.outgoing_halfedges[face_vertices[i]]) \subseteq deleted
  THEN DeleteVertices(delete_only_vertex(m, face_vertices[i]), face_vertices, deleted,
                      Append(deleted_vertices, face_vertices[i]), i + 1)
  ELSE DeleteVertices(m, face_vertices, deleted, deleted_vertices, i + 1)

\* the new canonical halfedge of v: the first halfedge of the fan traversal
\* that is not in the removal set; "hang" if the traversal neither finds one
\* nor ends
Repoint(m, v, found, deleted) ==
  IF found = None /\ VertexOutgoingHangs(m, v) THEN Hang(m)
  ELSE [m EXCEPT !.vertices[v].outgoing_halfedge = found]

\* third loop: re-point the canonical outgoing halfedge of the start vertex
\* of every halfedge of the removal set
RECURSIVE DeleteRepoint(_, _, _, _)
DeleteRepoint(m, order, deleted, i) ==
  IF i > Len(order) \/ ~Ok(m) THEN [m |-> m, early |-> ~Ok(m)]
  ELSE IF start_vertex(m, order[i]) = None THEN [m |-> m, early |-> TRUE]
  ELSE IF ~Has(m.vertices, start_vertex(m, order[i]))
  THEN DeleteRepoint(m, order, deleted, i + 1)
  ELSE DeleteRepoint(
         Repoint(m, start_vertex(m, order[i]),
                 First(VertexOutgoing(m, start_vertex(m, order[i])), LAMBDA h : h \notin deleted),
                 deleted),
         order, deleted, i + 1)

\* fourth loop: remove the halfedges from the arena and from the adjacency
\* lists of the touched vertices
DeleteRemove(m, face_vertices, deleted) ==
  [m EXCEPT !.halfedges = [h \in (DOMAIN @) \ deleted |-> @[h]],
            !.outgoing_halfedges =
               [v \in DOMAIN @ |->
                  IF v \in Range(face_vertices)
                  THEN SelectSeq(@[v], LAMBDA id : id \notin deleted)
                  ELSE @[v]]]

\* the end of delete_face: self.faces[face_id] panics for an absent face
DeleteFinish(r, face_id, deleted_vertices, order) ==
  IF ~Has(r.faces, face_id) THEN DeleteEarly(Panic(r))
  ELSE [m |-> [r EXCEPT !.faces = Del(@, face_id)],
        ret |-> [vertices |-> deleted_vertices, halfedges |-> order]]

\* the (id, copy) pairs of the halfedges whose face is face_id, in arena order
HalfedgesOfFace(m, face_id) ==
  Bind(SetToAsc({h \in DOMAIN m.halfedges : m.halfedges[h].face = face_id}),
       LAMBDA ids : [i \in 1..Len(ids) |-> <<ids[i], m.halfedges[ids[i]]>>])

delete_face(m, face_id, rev) ==
  Bind(DeleteClassify(m, HalfedgesOfFace(m, face_id), <<>>, {}, 1), LAMBDA c :
    IF c.early THEN DeleteEarly(c.m)
    ELSE Bind(DeleteVertices(c.m, c.vertices, c.deleted, <<>>, 1), LAMBDA v :
      IF v.early THEN DeleteEarly(v.m)
      ELSE Bind(DeleteRepoint(v.m, HashOrder(c.deleted, rev), c.deleted, 1), LAMBDA p :
        IF p.early THEN DeleteEarly(p.m)
        ELSE DeleteFinish(DeleteRemove(p.m, c.vertices, c.deleted), face_id,
                          v.deleted_vertices, HashOrder(c.deleted, rev)))))

(* ---------------- derived iterators (elements/vertex.rs, face.rs) ---------------- *)
\* Iterator::map over a collected sequence
MapSeq(s, F(_)) == [i \in 1..Len(s) |-> F(s[i])]

\* Vertex::faces: the faces of the halfedges of the fan traversal
VertexFaces(m, v) ==
  MapSeq(SelectSeq(VertexOutgoing(m, v), LAMBDA h : FaceOf(m, h) # None),
         LAMBDA h : FaceOf(m, h))

\* Face::vertices: the end vertices of the live halfedges of the face loop
FaceVertexSeq(m, f) ==
  MapSeq(SelectSeq(FaceHalfedges(m, f), LAMBDA h : Has(m.halfedges, h)),
         LAMBDA h : EndOf(m, h))

(* ---------------- coincidence predicates (ops/cleanup/mod.rs) ---------------- *)
\* the inner loop of faces_share_all_vertices for one vertex of face 1: the
\* first vertex of face 2 without a position ends the test with "none", the
\* first one at the same position is a "match"; a face loop that never ends
\* and holds neither hangs
ShareInner(m, v1, V2, hangs2) ==
  Bind(FirstIndex(V2, LAMBDA v2 : ~Has(m.positions, v2) \/ m.positions[v2] = m.positions[v1]),
       LAMBDA j : IF j = 0 THEN (IF hangs2 THEN "hang" ELSE "none")
                  ELSE IF Has(m.positions, V2[j]) THEN "match" ELSE "none")

\* the outer loop: "yes", "no" or "hang"
ShareOuter(m, V1, hangs1, V2, hangs2) ==
  Bind(FirstIndex(V1, LAMBDA v1 : ~Has(m.positions, v1)
                                   \/ ShareInner(m, v1, V2, hangs2) # "match"),
       LAMBDA i : IF i = 0 THEN (IF hangs1 THEN "hang" ELSE "yes")
                  ELSE IF ~Has(m.positions, V1[i]) THEN "no"
                  ELSE IF ShareInner(m, V1[i], V2, hangs2) = "hang" THEN "hang"
                  ELSE "no")

\* faces_share_all_vertices: every vertex position of face 1 is a vertex
\* position of face 2
faces_share_all_vertices(m, face_id1, face_id2) ==
  IF ~Has(m.faces, face_id1) \/ ~Has(m.faces, face_id2) THEN "no"
  ELSE ShareOuter(m, FaceVertexSeq(m, face_id1), FaceHalfedgesHangs(m, face_id1),
                  FaceVertexSeq(m, face_id2), FaceHalfedgesHangs(m, face_id2))

\* halfedges_share_all_vertices: same start vertex id and same end vertex id
halfedges_share_all_vertices(m, halfedge_id1, halfedge_id2) ==
  /\ Has(m.halfedges, halfedge_id1)
  /\ Has(m.halfedges, halfedge_id2)
  /\ start_vertex(m, halfedge_id1) # None
  /\ start_vertex(m, halfedge_id2) # None
  /\ start_vertex(m, halfedge_id1) = start_vertex(m, halfedge_id2)
  /\ EndOf(m, halfedge_id1) = EndOf(m, halfedge_id2)

(* ---------------- welding (ops/cleanup/vertex_neighborhood.rs) ---------------- *)
\* a halfedge id that stands for "the search never returned"
Hung == -1

\* Face::halfedge_between: the first halfedge of the face loop whose end and
\* start are among the two vertices; None, or Hung on a loop that never ends
halfedge_between(m, f, vertex_id1, vertex_id2) ==
  Bind(FirstIndex(FaceHalfedges(m, f),
                  LAMBDA h : \/ ~Has(m.halfedges, h)
                             \/ /\ EndOf(m, h) \in {vertex_id1, vertex_id2}
                                /\ start_vertex(m, h) \in {None, vertex_id1, vertex_id2}),
       LAMBDA j : IF j = 0 THEN (IF FaceHalfedgesHangs(m, f) THEN Hung ELSE None)
                  ELSE IF start_vertex(m, FaceHalfedges(m, f)[j]) = None THEN None
                  ELSE FaceHalfedges(m, f)[j])

\* weld_faces_at once both halfedges are found: the twin pair, then the two
\* canonical outgoing halfedges; a missing start vertex returns before the
\* other vertex is touched
WeldPair(m, start_vertex_id, other_common_vertex_id, he1_id, he2_id) ==
  Bind(IF EndOf(m, he1_id) = start_vertex_id THEN <<he2_id, he1_id>> ELSE <<he1_id, he2_id>>,
       LAMBDA out :
         [m EXCEPT !.halfedges = PairTwins(@, he1_id, he2_id),
                   !.vertices =
                      IF ~Has(@, start_vertex_id) THEN @
                      ELSE SetOutgoing(SetOutgoing(@, start_vertex_id, out[1]),
                                       other_common_vertex_id, out[2])])

weld_faces_at(m, start_vertex_id, other_common_vertex_id, face_id1, face_id2) ==
  IF ~Has(m.faces, face_id1) \/ ~Has(m.faces, face_id2) THEN m
  ELSE Bind(halfedge_between(m, face_id1, start_vertex_id, other_common_vertex_id), LAMBDA he1_id :
       IF he1_id = Hung THEN Hang(m)
       ELSE IF he1_id = None THEN m
       ELSE Bind(halfedge_between(m, face_id2, start_vertex_id, other_common_vertex_id),
                 LAMBDA he2_id :
                   IF he2_id = Hung THEN Hang(m)
                   ELSE IF he2_id = None THEN m
                   ELSE WeldPair(m, start_vertex_id, other_common_vertex_id, he1_id, he2_id)))

\* weld_faces: the other common vertex is the first one, in hash order, of
\* the intersection of the two vertex sets that is not the start vertex
weld_faces(m, start_vertex_id, face_id1, face_id2, rev) ==
  IF ~Has(m.faces, face_id1) \/ ~Has(m.faces, face_id2) THEN m
  ELSE IF FaceHalfedgesHangs(m, face_id1) \/ FaceHalfedgesHangs(m, face_id2) THEN Hang(m)
  ELSE Bind(First(HashOrder(Range(FaceVertexSeq(m, face_id1))
                            \cap Range(FaceVertexSeq(m, face_id2)), rev),
                  LAMBDA v : v # start_vertex_id),
            LAMBDA other : IF other = None THEN m
                           ELSE weld_faces_at(m, start_vertex_id, other, face_id1, face_id2))

(* ---------------- vertex split (ops/cleanup/vertex_neighborhood.rs) ---------------- *)
\* element k (counted from 0, wrapping around) of a non-empty sequence
Wrap(s, k) == s[(k % Len(s)) + 1]

\* the index (from 0) of the first x in s, 0 if there is none
IndexOr0(s, x) == Bind(FirstIndex(s, LAMBDA y : y = x), LAMBDA i : IF i = 0 THEN 0 ELSE i - 1)

\* the number of steps from start to the first x, walking s around; Len(s)
\* if s does not hold x
StepsTo(s, start, x) ==
  Bind({t \in 0..(Len(s) - 1) : Wrap(s, start + t) = x},
       LAMBDA ts : IF ts = {} THEN Len(s) ELSE CHOOSE t \in ts : \A u \in ts : t <= u)

\* `cnt` elements of s from `from`, walking around
Slice(s, from, cnt) == [t \in 1..cnt |-> Wrap(s, from + t - 1)]

DropLast(s) == IF s = <<>> THEN s ELSE SubSeq(s, 1, Len(s) - 1)

\* the loop "Updating start vertex" of the two split functions: every
\* halfedge of the faces of side two that ends at the vertex ends at the new
\* vertex instead; `ok` is FALSE when a face is missing (the function returns)
RECURSIVE Retarget(_, _, _, _, _)
Retarget(m, side_two, vertex_id, new_vertex_id, i) ==
  IF i > Len(side_two) THEN [m |-> m, ok |-> TRUE]
  ELSE IF ~Has(m.faces, side_two[i]) THEN [m |-> m, ok |-> FALSE]
  ELSE IF FaceHalfedgesHangs(m, side_two[i]) THEN [m |-> Hang(m), ok |-> FALSE]
  ELSE IF ~(Range(FaceHalfedges(m, side_two[i])) \subseteq DOMAIN m.halfedges)
  THEN [m |-> Panic(m), ok |-> FALSE]
  ELSE Retarget([m EXCEPT !.halfedges =
                   [h \in DOMAIN @ |->
                      IF h \in Range(FaceHalfedges(m, side_two[i])) /\ @[h].end_vertex = vertex_id
                      THEN [@[h] EXCEPT !.end_vertex = new_vertex_id]
                      ELSE @[h]]],
                side_two, vertex_id, new_vertex_id, i + 1)

\* self.outgoing_halfedges[v] = self.vertices[v].outgoing_halfedges(self).collect()
RefreshList(m, v) ==
  IF ~Ok(m) THEN m
  ELSE IF ~Has(m.vertices, v) THEN Panic(m)
  ELSE IF VertexOutgoingHangs(m, v) THEN Hang(m)
  ELSE IF ~Has(m.outgoing_halfedges, v) THEN Panic(m)
  ELSE [m EXCEPT !.outgoing_halfedges[v] = VertexOutgoing(m, v)]

\* the two welds of a split: weld_faces_at with the given other vertex
\* (split_regions_at_edge) or weld_faces (split_regions_at_vertex, other = None)
Weld(m, start_vertex_id, other, face_id1, face_id2, rev) ==
  IF ~Ok(m) THEN m
  ELSE IF other = None THEN weld_faces(m, start_vertex_id, face_id1, face_id2, rev)
  ELSE weld_faces_at(m, start_vertex_id, other, face_id1, face_id2)

\* the part of both split functions after the new vertex is inserted
SplitAt(m, vertex_id, new_vertex_id, other, side_one, side_two, rev) ==
  Bind(Retarget(m, side_two, vertex_id, new_vertex_id, 1), LAMBDA r :
    IF ~r.ok THEN [m |-> r.m, ret |-> None]
    ELSE [m |-> RefreshList(RefreshList(
                  Weld(Weld(r.m, vertex_id, other, side_one[Len(side_one)], side_one[1], rev),
                       new_vertex_id, other, side_two[1], side_two[Len(side_two)], rev),
                  vertex_id), new_vertex_id),
          ret |-> new_vertex_id])

\* split_regions_at_vertex (other = None) and split_regions_at_edge
split_regions(m, vertex_id, other, side_one, side_two, rev) ==
  IF Len(side_one) < 2 \/ Len(side_two) < 2 THEN [m |-> m, ret |-> None]
  ELSE IF ~Has(m.positions, vertex_id) THEN [m |-> m, ret |-> None]
  ELSE SplitAt(insert_vertex(m, m.positions[vertex_id]).m, vertex_id, m.nv + 1, other,
               side_one, side_two, rev)

(* ---------------- neighbourhood repair (ops/cleanup/vertex_neighborhood.rs) ---------------- *)
\* the running state of a repair step: the mesh, the three output lists and
\* whether the function has returned
Acc(m, rv, rh, rf) == [m |-> m, rv |-> rv, rh |-> rh, rf |-> rf, done |-> FALSE]

Done(a) == [a EXCEPT !.done = TRUE]

\* delete_face inside a repair step: the lists grow by what it returns and
\* the face id is pushed whatever it returns
AccDelete(a, face_id, rev) ==
  IF ~Ok(a.m) THEN a
  ELSE Bind(delete_face(a.m, face_id, rev), LAMBDA d :
    IF ~Ok(d.m) THEN [a EXCEPT !.m = d.m]
    ELSE [a EXCEPT !.m = d.m, !.rv = @ \o d.ret.vertices, !.rh = @ \o d.ret.halfedges,
                   !.rf = Append(@, face_id)])

\* the first pair (i, j), i < j, in the order of tuple_combinations, whose
\* test T does not answer "no"; <<0, 0>> if there is none
FirstPair(n, T(_, _)) ==
  Bind({p \in (1..n) \X (1..n) : p[1] < p[2] /\ T(p[1], p[2]) # "no"}, LAMBDA ps :
    IF ps = {} THEN <<0, 0>>
    ELSE CHOOSE p \in ps : \A q \in ps : p[1] < q[1] \/ (p[1] = q[1] /\ p[2] <= q[2]))

\* the end of a flap removal, after the two leftover halfedges were removed
\* from the arena: the canonical halfedges of the vertex and of the end of
\* its new outgoing halfedge
FlapRepoint(a, vertex_id, twin_id1, twin_id2) ==
  IF ~Has(a.m.halfedges, twin_id1) THEN [a EXCEPT !.m = Panic(@)]
  ELSE Bind(IF EndOf(a.m, twin_id1) = vertex_id THEN twin_id2 ELSE twin_id1,
            LAMBDA new_outgoing_he_id :
    IF ~Has(a.m.vertices, vertex_id) THEN Done(a)
    ELSE Bind([a EXCEPT !.m.vertices[vertex_id].outgoing_halfedge = new_outgoing_he_id],
              LAMBDA b :
      IF ~Has(b.m.halfedges, new_outgoing_he_id) THEN Done(b)
      ELSE IF ~Has(b.m.vertices, EndOf(b.m, new_outgoing_he_id)) THEN Done(b)
      ELSE [b EXCEPT !.m.vertices[EndOf(b.m, new_outgoing_he_id)].outgoing_halfedge =
                       Twin(b.m, new_outgoing_he_id)]))

\* the twins of the two leftover halfedges become twins of each other and
\* the leftover halfedges leave the arena (not the adjacency lists)
FlapRetwin(a, vertex_id, he_id1, he_id2) ==
  IF ~Has(a.m.halfedges, he_id1) \/ Twin(a.m, he_id1) = None THEN Done(a)
  ELSE IF ~Has(a.m.halfedges, he_id2) \/ Twin(a.m, he_id2) = None THEN Done(a)
  ELSE IF ~Has(a.m.halfedges, Twin(a.m, he_id1)) THEN Done(a)
  ELSE Bind([a EXCEPT !.m.halfedges[Twin(a.m, he_id1)].twin = Twin(a.m, he_id2)], LAMBDA b :
    IF ~Has(b.m.halfedges, Twin(a.m, he_id2)) THEN Done(b)
    ELSE FlapRepoint(
           [b EXCEPT !.m.halfedges =
                        Del(Del([@ EXCEPT ![Twin(a.m, he_id2)].twin = Twin(a.m, he_id1)],
                                he_id1), he_id2),
                     !.rh = @ \o <<he_id1, he_id2>>],
           vertex_id, Twin(a.m, he_id1), Twin(a.m, he_id2)))

\* the two halfedges that are left of the set: debug_assert_eq!(len, 2) in a
\* build with debug assertions, next().unwrap() twice in every build
FlapLeftover(a, vertex_id, left, rev, debug) ==
  IF ~Ok(a.m) THEN a
  ELSE IF Cardinality(left) < 2 \/ (debug /\ Cardinality(left) # 2) THEN [a EXCEPT !.m = Panic(@)]
  ELSE FlapRetwin(a, vertex_id, HashOrder(left, rev)[1], HashOrder(left, rev)[2])

\* one coincident pair of remove_neighboring_flaps
FlapRemove(a, vertex_id, face_id1, face_id2, rev, debug) ==
  IF FaceHalfedgesHangs(a.m, face_id1) \/ FaceHalfedgesHangs(a.m, face_id2)
  THEN [a EXCEPT !.m = Hang(@)]
  ELSE Bind(AccDelete(AccDelete([a EXCEPT !.rh = <<>>], face_id1, rev), face_id2, rev),
            LAMBDA b :
         FlapLeftover([b EXCEPT !.rh = a.rh \o @], vertex_id,
                      (Range(FaceHalfedges(a.m, face_id1)) \cup Range(FaceHalfedges(a.m, face_id2)))
                        \ Range(b.rh),
                      rev, debug))

\* the tuples that are left after a removal: the next tuple is popped, and
\* in the first round the first one is removed (Vec::remove panics on an
\* empty vector)
FlapRest(a, rest, first) ==
  IF ~Ok(a.m) \/ a.done THEN [a |-> a, rest |-> <<>>]
  ELSE IF ~first THEN [a |-> a, rest |-> DropLast(rest)]
  ELSE IF DropLast(rest) = <<>> THEN [a |-> [a EXCEPT !.m = Panic(@)], rest |-> <<>>]
  ELSE [a |-> a, rest |-> Tail(DropLast(rest))]

\* the loop `while let Some((face_id1, face_id2)) = face_tuples.pop()`
RECURSIVE FlapLoop(_, _, _, _, _, _)
FlapLoop(a, vertex_id, face_tuples, first, rev, debug) ==
  IF ~Ok(a.m) \/ a.done \/ face_tuples = <<>> THEN a
  ELSE Bind(face_tuples[Len(face_tuples)], LAMBDA t :
       Bind(faces_share_all_vertices(a.m, t[1], t[2]), LAMBDA share :
         IF share = "hang" THEN [a EXCEPT !.m = Hang(@)]
         ELSE IF share = "no"
         THEN FlapLoop(a, vertex_id, DropLast(face_tuples), FALSE, rev, debug)
         ELSE Bind(FlapRest(FlapRemove(a, vertex_id, t[1], t[2], rev, debug),
                            DropLast(face_tuples), first),
                   LAMBDA r : FlapLoop(r.a, vertex_id, r.rest, FALSE, rev, debug))))

\* Itertools::circular_tuple_windows for pairs
circular_tuple_windows(s) == [i \in 1..Len(s) |-> <<s[i], Wrap(s, i)>>]

remove_neighboring_flaps(a, vertex_id, rev, debug) ==
  IF ~Has(a.m.vertices, vertex_id) THEN a
  ELSE IF VertexOutgoingHangs(a.m, vertex_id) THEN [a EXCEPT !.m = Hang(@)]
  ELSE IF Len(VertexFaces(a.m, vertex_id)) < 2 THEN a
  ELSE [FlapLoop(a, vertex_id, circular_tuple_windows(VertexFaces(a.m, vertex_id)),
                 TRUE, rev, debug) EXCEPT !.done = FALSE]

\* the two sides of the face fan of a vertex between the faces of a
\* coincident pair: side one from index `start` (counted from 0) up to the
\* first face_id2, which it holds iff `inclusive`; side two the faces after
\* it up to `start`
Sides(fan, start, face_id2, inclusive) ==
  Bind(StepsTo(fan, start, face_id2), LAMBDA k :
    [one |-> Slice(fan, start, IF inclusive THEN k + 1 ELSE k),
     two |-> Slice(fan, start + k + 1, Len(fan) - k - 1)])

\* remove_degenerate_faces once the coincident pair is known
DegenerateFacesAt(a, vertex_id, fan, face_id1, face_id2, rev) ==
  Bind(Sides(fan, FirstIndex(fan, LAMBDA f : f = face_id1) % Len(fan), face_id2, FALSE),
       LAMBDA sides :
  Bind(split_regions(a.m, vertex_id, None, sides.one, DropLast(sides.two), rev), LAMBDA split :
    [a |-> AccDelete(AccDelete([a EXCEPT !.m = split.m], face_id1, rev), face_id2, rev),
     ret |-> split.ret]))

remove_degenerate_faces(a, vertex_id, rev) ==
  IF ~Has(a.m.vertices, vertex_id) THEN [a |-> a, ret |-> None]
  ELSE IF VertexOutgoingHangs(a.m, vertex_id) THEN [a |-> [a EXCEPT !.m = Hang(@)], ret |-> None]
  ELSE Bind(VertexFaces(a.m, vertex_id), LAMBDA fan :
       Bind(FirstPair(Len(fan), LAMBDA i, j : faces_share_all_vertices(a.m, fan[i], fan[j])),
            LAMBDA p :
         IF p = <<0, 0>> THEN [a |-> a, ret |-> None]
         ELSE IF faces_share_all_vertices(a.m, fan[p[1]], fan[p[2]]) = "hang"
         THEN [a |-> [a EXCEPT !.m = Hang(@)], ret |-> None]
         ELSE DegenerateFacesAt(a, vertex_id, fan, fan[p[1]], fan[p[2]], rev)))

\* remove_degenerate_edges once the coincident pair of halfedges is known
DegenerateEdgesAt(m, vertex_id, he_id1, he_id2, rev) ==
  IF FaceOf(m, Twin(m, he_id1)) = None \/ FaceOf(m, he_id2) = None THEN [m |-> m, ret |-> None]
  ELSE Bind(VertexFaces(m, vertex_id), LAMBDA fan :
    IF fan = <<>> THEN [m |-> Panic(m), ret |-> None]
    ELSE IF FaceOf(m, he_id2) \notin Range(fan) THEN [m |-> Hang(m), ret |-> None]
    ELSE Bind(Sides(fan, IndexOr0(fan, FaceOf(m, Twin(m, he_id1))), FaceOf(m, he_id2), TRUE),
              LAMBDA sides :
                split_regions(m, vertex_id, EndOf(m, he_id1), sides.one, sides.two, rev)))

remove_degenerate_edges(m, vertex_id, rev) ==
  IF ~Has(m.vertices, vertex_id) THEN [m |-> m, ret |-> None]
  ELSE IF VertexOutgoingHangs(m, vertex_id) THEN [m |-> Hang(m), ret |-> None]
  ELSE Bind(VertexOutgoing(m, vertex_id), LAMBDA hs :
       Bind(FirstPair(Len(hs), LAMBDA i, j :
                        IF halfedges_share_all_vertices(m, hs[i], hs[j]) THEN "yes" ELSE "no"),
            LAMBDA p :
         IF p = <<0, 0>> THEN [m |-> m, ret |-> None]
         ELSE DegenerateEdgesAt(m, vertex_id, hs[p[1]], hs[p[2]], rev)))

\* make_vertex_neighborhood_manifold_step: fresh lists, then the three
\* repairs of make_vertex_neighborhood_manifold_inner
InnerAfterFlaps(a, vertex_id, rev) ==
  IF ~Ok(a.m) THEN [a |-> a, ret |-> None]
  ELSE Bind(remove_degenerate_faces(a, vertex_id, rev), LAMBDA r :
    IF ~Ok(r.a.m) \/ r.ret # None THEN r
    ELSE Bind(remove_degenerate_edges(r.a.m, vertex_id, rev), LAMBDA e :
      [a |-> [r.a EXCEPT !.m = e.m], ret |-> e.ret]))

make_vertex_neighborhood_manifold_step(m, vertex_id, rev, debug) ==
  IF ~Has(m.vertices, vertex_id) THEN [a |-> Acc(m, <<>>, <<>>, <<>>), ret |-> None]
  ELSE InnerAfterFlaps(remove_neighboring_flaps(Acc(m, <<>>, <<>>, <<>>), vertex_id, rev, debug),
                       vertex_id, rev)

\* Vec::swap_remove(0)
SwapRemoveFirst(s) ==
  IF Len(s) <= 1 THEN <<>> ELSE <<s[Len(s)]>> \o SubSeq(s, 2, Len(s) - 1)

VertexNeighborhoodCleanup(rv, rh, rf, sv) ==
  [removed_vertices |-> rv, removed_halfedges |-> rh, removed_faces |-> rf, split_vertices |-> sv]

\* the worklist and the result after one step
AfterStep(step, worklist, res) ==
  [worklist |-> IF step.a.rv = <<>> /\ step.a.rh = <<>> /\ step.a.rf = <<>>
                THEN SwapRemoveFirst(IF step.ret = None THEN worklist
                                     ELSE Append(worklist, step.ret))
                ELSE IF step.ret = None THEN worklist ELSE Append(worklist, step.ret),
   quiet |-> step.a.rv = <<>> /\ step.a.rh = <<>> /\ step.a.rf = <<>>,
   res |-> VertexNeighborhoodCleanup(
             res.removed_vertices \o step.a.rv, res.removed_halfedges \o step.a.rh,
             res.removed_faces \o step.a.rf,
             IF step.ret = None THEN res.split_vertices ELSE Append(res.split_vertices, step.ret))]

\* the loop of make_vertex_neighborhood_manifold; a step that reports
\* removals but changes nothing is repeated for ever
RECURSIVE ManifoldLoop(_, _, _, _, _, _)
ManifoldLoop(m, worklist, res, rev, debug, fuel) ==
  Bind(make_vertex_neighborhood_manifold_step(m, worklist[1], rev, debug), LAMBDA step :
    IF ~Ok(step.a.m) THEN [m |-> step.a.m, ret |-> res]
    ELSE Bind(AfterStep(step, worklist, res), LAMBDA n :
      IF n.quiet /\ n.worklist = <<>>
      THEN [m |-> step.a.m,
            ret |-> IF Len(n.res.split_vertices) = 1
                    THEN [n.res EXCEPT !.split_vertices = <<>>] ELSE n.res]
      ELSE IF fuel = 0 \/ (~n.quiet /\ step.ret = None /\ step.a.m = m)
      THEN [m |-> Hang(step.a.m), ret |-> n.res]
      ELSE ManifoldLoop(step.a.m, n.worklist, n.res, rev, debug, fuel - 1)))

make_vertex_neighborhood_manifold(m, vertex_id, rev, debug) ==
  ManifoldLoop(m, <<vertex_id>>, VertexNeighborhoodCleanup(<<>>, <<>>, <<>>, <<vertex_id>>),
               rev, debug, 2 * (m.nv + m.nh + m.nf) + 2)

(* ---------------- edge collapse (ops/collapse.rs) ---------------- *)
\* Vertex::incoming_halfedges: the twins of the fan traversal
VertexIncoming(m, v) ==
  MapSeq(SelectSeq(VertexOutgoing(m, v), LAMBDA h : Twin(m, h) # None),
         LAMBDA h : Twin(m, h))

\* (p + q) * 0.5; coordinates are kept in units in which the halves are whole
Midpoint(p, q) == <<(p[1] + q[1]) \div 2, (p[2] + q[2]) \div 2>>

\* remove_halfedge_face returned None
NoneRemoved(m) == [m |-> m, ret |-> [some |-> FALSE]]

\* the end of remove_halfedge_face: the two halfedges and the face leave the
\* arenas, then the twins of the two halfedges become twins of each other
RemoveFaceUnlink(m, face_id, next_he_id, prev_he_id, next_twin_id, prev_twin_id) ==
  IF ~Has(m.faces, face_id) THEN NoneRemoved(m)
  ELSE Bind([m EXCEPT !.halfedges = Del(Del(@, next_he_id), prev_he_id),
                      !.faces = Del(@, face_id)], LAMBDA m1 :
    IF ~Has(m1.halfedges, next_twin_id) THEN NoneRemoved(m1)
    ELSE Bind([m1 EXCEPT !.halfedges[next_twin_id].twin = prev_twin_id], LAMBDA m2 :
      IF ~Has(m2.halfedges, prev_twin_id) THEN NoneRemoved(m2)
      ELSE [m |-> [m2 EXCEPT !.halfedges[prev_twin_id].twin = next_twin_id],
            ret |-> [some |-> TRUE, face_id |-> face_id,
                     halfedges |-> <<next_he_id, prev_he_id>>]]))

\* the canonical halfedge of the start of the previous halfedge moves away
\* from it
RemoveFaceStart(m, face_id, next_he_id, prev_he_id) ==
  Bind(start_vertex(m, prev_he_id), LAMBDA prev_start_v_id :
    IF prev_start_v_id = None \/ ~Has(m.vertices, prev_start_v_id) THEN NoneRemoved(m)
    ELSE RemoveFaceUnlink(
           IF m.vertices[prev_start_v_id].outgoing_halfedge = prev_he_id
           THEN [m EXCEPT !.vertices[prev_start_v_id].outgoing_halfedge =
                            IF ccw_rotated_neighbour(m, prev_he_id) # None
                            THEN ccw_rotated_neighbour(m, prev_he_id)
                            ELSE cw_rotated_neighbour(m, prev_he_id)]
           ELSE m,
           face_id, next_he_id, prev_he_id, Twin(m, next_he_id), Twin(m, prev_he_id)))

\* the canonical halfedges of the end vertices of the next and the previous
\* halfedge
RemoveFaceEnds(m, face_id, next_he_id, prev_he_id) ==
  IF ~Has(m.vertices, EndOf(m, next_he_id)) THEN NoneRemoved(m)
  ELSE Bind([m EXCEPT !.vertices[EndOf(m, next_he_id)].outgoing_halfedge = NextOf(m, next_he_id)],
            LAMBDA m1 :
    IF ~Has(m1.vertices, EndOf(m, prev_he_id)) THEN NoneRemoved(m1)
    ELSE RemoveFaceStart(
           [m1 EXCEPT !.vertices[EndOf(m, prev_he_id)].outgoing_halfedge = NextOf(m, prev_he_id)],
           face_id, next_he_id, prev_he_id))

remove_halfedge_face(m, halfedge_id) ==
  IF ~Has(m.halfedges, halfedge_id) \/ FaceOf(m, halfedge_id) = None THEN NoneRemoved(m)
  ELSE IF NextOf(m, halfedge_id) = None \/ prev(m, halfedge_id) = None THEN NoneRemoved(m)
  ELSE IF ~Has(m.halfedges, NextOf(m, halfedge_id)) THEN NoneRemoved(Panic(m))
  ELSE IF Twin(m, NextOf(m, halfedge_id)) = None THEN NoneRemoved(m)
  ELSE IF ~Has(m.halfedges, prev(m, halfedge_id)) THEN NoneRemoved(Panic(m))
  ELSE IF Twin(m, prev(m, halfedge_id)) = None THEN NoneRemoved(m)
  ELSE RemoveFaceEnds(m, FaceOf(m, halfedge_id), NextOf(m, halfedge_id), prev(m, halfedge_id))

\* a collapse side that never removes the face of the halfedge
CollapseSideKeepsFace(a, halfedge_id, has_face) ==
  IF ~Ok(a.m) \/ a.done THEN a ELSE [a EXCEPT !.rh = Append(@, halfedge_id)]

\* `if !he.is_boundary() { remove_halfedge_face ... }` and the push of the
\* halfedge itself; a failed removal returns from collapse_edge
CollapseSide(a, halfedge_id, has_face) ==
  IF ~Ok(a.m) \/ a.done THEN a
  ELSE IF ~has_face THEN [a EXCEPT !.rh = Append(@, halfedge_id)]
  ELSE Bind(remove_halfedge_face(a.m, halfedge_id), LAMBDA r :
    IF ~Ok(r.m) \/ ~r.ret.some THEN Done([a EXCEPT !.m = r.m])
    ELSE [a EXCEPT !.m = r.m, !.rf = Append(@, r.ret.face_id),
                   !.rh = (@ \o r.ret.halfedges) \o <<halfedge_id>>])

\* the second side: the twin is looked up after the first face was removed
CollapseTwinSide(a, twin_id) ==
  IF ~Ok(a.m) \/ a.done THEN a
  ELSE IF twin_id = None \/ ~Has(a.m.halfedges, twin_id) THEN Done(a)
  ELSE CollapseSide(a, twin_id, FaceOf(a.m, twin_id) # None)

\* the three lists collapse_edge returns
Removed(a) == [vertices |-> a.rv, halfedges |-> a.rh, faces |-> a.rf]

\* the flap removal at the end of collapse_edge: the loop of
\* remove_neighboring_flaps over the faces of the start vertex
CollapseFlaps(a, start_vert_id, rev, debug) ==
  IF ~Ok(a.m) THEN a
  ELSE IF ~Has(a.m.vertices, start_vert_id) THEN a
  ELSE IF VertexOutgoingHangs(a.m, start_vert_id) THEN [a EXCEPT !.m = Hang(@)]
  ELSE FlapLoop(a, start_vert_id, circular_tuple_windows(VertexFaces(a.m, start_vert_id)),
                TRUE, rev, debug)

\* collapse_edge after both sides are removed: the incoming halfedges of the
\* end vertex end at the start vertex, the end vertex and the two halfedges
\* leave the arenas, the twin is pushed once more, the start vertex moves to
\* the centre and takes the first surviving outgoing halfedge of the end vertex
CollapseJoin(a, halfedge_id, twin_id, start_vert_id, end_vert_id, incoming, outgoing, center_pos) ==
  IF ~Ok(a.m) \/ a.done THEN a
  ELSE Bind(delete_only_vertex(
              [a.m EXCEPT !.halfedges =
                 Del(Del([h \in DOMAIN @ |-> IF h \in Range(incoming)
                                             THEN [@[h] EXCEPT !.end_vertex = start_vert_id]
                                             ELSE @[h]],
                         halfedge_id), twin_id)],
              end_vert_id),
            LAMBDA m1 :
    IF ~Has(m1.positions, start_vert_id) \/ ~Has(m1.vertices, start_vert_id)
    THEN [a EXCEPT !.m = Panic(m1), !.rh = Append(@, twin_id)]
    ELSE [a EXCEPT !.m = [m1 EXCEPT !.positions[start_vert_id] = center_pos,
                                    !.vertices[start_vert_id].outgoing_halfedge =
                                       First(outgoing, LAMBDA h : Has(m1.halfedges, h))],
                   !.rh = Append(@, twin_id),
                   !.rv = Append(@, end_vert_id)])

\* collapse_edge once the halfedge, its start and both positions are known
CollapseAt(m, halfedge_id, start_vert_id, end_vert_id, rev, debug) ==
  Bind(CollapseJoin(
         CollapseTwinSide(CollapseSide(Acc(m, <<>>, <<>>, <<>>), halfedge_id,
                                       FaceOf(m, halfedge_id) # None),
                          Twin(m, halfedge_id)),
         halfedge_id, Twin(m, halfedge_id), start_vert_id, end_vert_id,
         VertexIncoming(m, end_vert_id), VertexOutgoing(m, end_vert_id),
         Midpoint(m.positions[start_vert_id], m.positions[end_vert_id])),
       LAMBDA a :
         IF a.done THEN [m |-> a.m, ret |-> Removed(a)]
         ELSE Bind(CollapseFlaps(a, start_vert_id, rev, debug), LAMBDA b :
                [m |-> b.m, ret |-> Removed(b)]))

collapse_edge(m, halfedge_id, rev, debug) ==
  IF ~Has(m.halfedges, halfedge_id) \/ start_vertex(m, halfedge_id) = None
  THEN [m |-> m, ret |-> Removed(Acc(m, <<>>, <<>>, <<>>))]
  ELSE IF ~Has(m.vertices, EndOf(m, halfedge_id))
  THEN [m |-> Panic(m), ret |-> Removed(Acc(m, <<>>, <<>>, <<>>))]
  ELSE IF VertexOutgoingHangs(m, EndOf(m, halfedge_id))
  THEN [m |-> Hang(m), ret |-> Removed(Acc(m, <<>>, <<>>, <<>>))]
  ELSE IF ~Has(m.positions, start_vertex(m, halfedge_id)) \/ ~Has(m.positions, EndOf(m, halfedge_id))
  THEN [m |-> m, ret |-> Removed(Acc(m, <<>>, <<>>, <<>>))]
  ELSE CollapseAt(m, halfedge_id, start_vertex(m, halfedge_id), EndOf(m, halfedge_id), rev, debug)

(* ---------------- one-ring merge: rings and ranges (ops/merge.rs) ---------------- *)
\* Vec indexing from 0
At(s, i) == s[i + 1]

\* Vertex::one_ring: the incoming halfedges, last first, each mapped to the
\* next of its twin, i.e. the edge of its face that lies opposite the vertex
one_ring(m, v) ==
  SelectSeq(MapSeq(Reverse(VertexIncoming(m, v)), LAMBDA h : cw_rotated_neighbour(m, h)),
            LAMBDA h : h # None)

\* Vec3::distance_squared
distance_squared(p, q) ==
  (p[1] - q[1]) * (p[1] - q[1]) + (p[2] - q[2]) * (p[2] - q[2]) + (p[3] - q[3]) * (p[3] - q[3])

\* usize::MAX mod len, from 2^64 = (2^16)^4
UsizeMaxMod(len) ==
  (((((65536 % len) * (65536 % len)) % len) * (((65536 % len) * (65536 % len)) % len)) + len - 1) % len

\* (i - 1).rem_euclid(len) on usize: at i = 0 the subtraction overflows, which
\* panics in a build with overflow checks (-1 here) and wraps in one without
PredIndex(i, len, debug) ==
  IF i > 0 THEN (i - 1) % len ELSE IF debug THEN -1 ELSE UsizeMaxMod(len)

\* the loop `while common.contains(v_id) { idx1 += 1; idx2 += 1; v_id = ring1[idx1] }`
\* entered with v_id = ring1[idx1]; it never ends when all of ring 1 is common
RECURSIVE SkipShared(_, _, _, _, _, _)
SkipShared(ring1, len2, common, idx1, idx2, fuel) ==
  IF At(ring1, idx1) \notin common THEN [hang |-> FALSE, idx1 |-> idx1, idx2 |-> idx2]
  ELSE IF fuel = 0 THEN [hang |-> TRUE, idx1 |-> idx1, idx2 |-> idx2]
  ELSE SkipShared(ring1, len2, common, (idx1 + 1) % Len(ring1), (idx2 + 1) % len2, fuel - 1)

StartIndices(status, some, idx1, idx2) ==
  [status |-> status, some |-> some, idx1 |-> idx1, idx2 |-> idx2]

\* find_start_indices with shared vertices: from some shared vertex forward to
\* the first vertex of ring 1 that is not shared, then one index back
StartAfterShared(ring1, ring2, common, v_id, debug) ==
  Bind(SkipShared(ring1, Len(ring2), common,
                  FirstIndex(ring1, LAMBDA v : v = v_id) - 1,
                  FirstIndex(ring2, LAMBDA v : v = v_id) - 1, Len(ring1)), LAMBDA s :
    IF s.hang THEN StartIndices("hang", FALSE, 0, 0)
    ELSE IF debug /\ (s.idx1 = 0 \/ s.idx2 = 0) THEN StartIndices("panic", FALSE, 0, 0)
    ELSE StartIndices("ok", TRUE, PredIndex(s.idx1, Len(ring1), debug),
                      PredIndex(s.idx2, Len(ring2), debug)))

\* find_start_indices without shared vertices: index 0 of ring 1 and the index
\* of the vertex of ring 2 nearest to it; of several nearest ones the first,
\* or (late) the last, f32 rounding deciding between equal exact distances
StartNearest(m, ring1, ring2, late) ==
  IF ~Has(m.positions, ring1[1]) \/ \E i \in DOMAIN ring2 : ~Has(m.positions, ring2[i])
  THEN StartIndices("ok", FALSE, 0, 0)
  ELSE Bind([i \in DOMAIN ring2 |-> distance_squared(m.positions[ring2[i]], m.positions[ring1[1]])],
            LAMBDA d :
       Bind({i \in DOMAIN d : \A j \in DOMAIN d : d[i] <= d[j]}, LAMBDA nearest :
         StartIndices("ok", TRUE, 0,
                      (CHOOSE i \in nearest : \A j \in nearest : IF late THEN j <= i ELSE i <= j) - 1)))

find_start_indices(m, one_ring_v_ids1, one_ring_v_ids2, common_v_ids, rev, debug, late) ==
  IF common_v_ids # {}
  THEN StartAfterShared(one_ring_v_ids1, one_ring_v_ids2, common_v_ids,
                        HashOrder(common_v_ids, rev)[1], debug)
  ELSE StartNearest(m, one_ring_v_ids1, one_ring_v_ids2, late)

\* ConnectPair::new: a range that wraps around gets its end lifted by len
LiftRange(range, len) == IF range[2] < range[1] THEN <<range[1], range[2] + len>> ELSE range

ConnectPair(range1, len1, range2, len2, closed) ==
  [closed |-> closed, ranges |-> <<LiftRange(range1, len1), LiftRange(range2, len2)>>]

\* RangeInclusive::count
RangeCount(range) == IF range[2] < range[1] THEN 0 ELSE range[2] - range[1] + 1

Pairing(single_range_idx, single_idx_in_range, other_range) ==
  [single_range_idx |-> single_range_idx, single_idx_in_range |-> single_idx_in_range,
   other_range |-> other_range]

\* the loop of compute_pairings
RECURSIVE PairingLoop(_, _, _, _, _, _, _, _, _)
PairingLoop(pairings, single_range_idx, single_count, other_count, other_last, error, single_idx_in_range, other_start, other_end) ==
  IF other_end > other_last THEN pairings
  ELSE IF error > 0
  THEN PairingLoop(Append(pairings, Pairing(single_range_idx, single_idx_in_range,
                                            <<other_start, other_end>>)),
                   single_range_idx, single_count, other_count, other_last,
                   error + 2 * (single_count - other_count), single_idx_in_range + 1,
                   other_end + 1, other_end + 1)
  ELSE PairingLoop(pairings, single_range_idx, single_count, other_count, other_last,
                   error + 2 * single_count, single_idx_in_range, other_start, other_end + 1)

\* the ranges that are paired: those of the pair, without their two ends when
\* the pair is closed
PairedRanges(pair) ==
  IF pair.closed
  THEN <<(<<pair.ranges[1][1] + 1, pair.ranges[1][2] - 1>>),
         (<<pair.ranges[2][1] + 1, pair.ranges[2][2] - 1>>)>>
  ELSE pair.ranges

\* ConnectPair::compute_pairings: the side with fewer elements is the single
\* side (side 0 on a tie); index 1 / 2 here for the source's 0 / 1
compute_pairings(pair) ==
  Bind(PairedRanges(pair), LAMBDA ranges :
  Bind(IF RangeCount(ranges[1]) > RangeCount(ranges[2]) THEN 2 ELSE 1, LAMBDA single :
    PairingLoop(<<>>, single, RangeCount(ranges[single]), RangeCount(ranges[3 - single]),
                ranges[3 - single][2],
                2 * RangeCount(ranges[single]) - RangeCount(ranges[3 - single]),
                ranges[single][1], ranges[3 - single][1], ranges[3 - single][1])))


(* ---------------- edge flip (ops/mod.rs) ---------------- *)
make_twins(m, he_id1, he_id2) ==
  IF ~Has(m.halfedges, he_id1) THEN m
  ELSE IF ~Has(m.halfedges, he_id2) THEN [m EXCEPT !.halfedges[he_id1].twin = he_id2]
  ELSE [m EXCEPT !.halfedges = PairTwins(@, he_id1, he_id2)]

\* the canonical halfedge of the vertex is replaced, in the vertex and in
\* its adjacency list
change_outgoing_halfedge(m, vertex_id, new_halfedge_id) ==
  IF ~Has(m.vertices, vertex_id) THEN m
  ELSE [m EXCEPT !.vertices[vertex_id].outgoing_halfedge = new_halfedge_id,
                 !.outgoing_halfedges =
                   Put(@, vertex_id,
                       Append(SelectSeq(ListOf(m, vertex_id),
                                        LAMBDA h : h # m.vertices[vertex_id].outgoing_halfedge),
                              new_halfedge_id))]

SetEnd(m, he_id, vertex_id) == [m EXCEPT !.halfedges[he_id].end_vertex = vertex_id]

\* the assignments of flip_edge, in the source's order; f holds the ids and
\* end vertices read before the first assignment
FlipAssign(m, halfedge_id, f) ==
  Bind(SetEnd(SetEnd(m, halfedge_id, f.opposite_v_id), f.prev_he_id, f.twin_opposite_v_id),
       LAMBDA m1 :
  Bind(make_twins(m1, f.prev_he_id, f.twin_next_twin_he_id), LAMBDA m2 :
  Bind(make_twins(SetEnd(m2, f.next_he_id, f.start_v_id), f.next_he_id, f.prev_twin_he_id),
       LAMBDA m3 :
  Bind(change_outgoing_halfedge(change_outgoing_halfedge(m3, f.start_v_id, f.prev_he_id),
                                f.opposite_v_id, f.next_he_id), LAMBDA m4 :
  Bind(SetEnd(SetEnd(m4, f.twin_he_id, f.twin_opposite_v_id), f.twin_prev_he_id, f.opposite_v_id),
       LAMBDA m5 :
  Bind(make_twins(m5, f.twin_prev_he_id, f.next_twin_he_id), LAMBDA m6 :
  Bind(make_twins(SetEnd(m6, f.twin_next_he_id, f.twin_start_v_id),
                  f.twin_next_he_id, f.twin_prev_twin_he_id), LAMBDA m7 :
    change_outgoing_halfedge(change_outgoing_halfedge(m7, f.twin_start_v_id, f.twin_prev_he_id),
                             f.twin_opposite_v_id, f.twin_next_he_id))))))))

\* what flip_edge reads; a None among the ids ends the call with no change
FlipRead(m, halfedge_id) ==
  [prev_he_id |-> prev(m, halfedge_id),
   start_v_id |-> EndOf(m, prev(m, halfedge_id)),
   prev_twin_he_id |-> Twin(m, prev(m, halfedge_id)),
   next_he_id |-> NextOf(m, halfedge_id),
   opposite_v_id |-> EndOf(m, NextOf(m, halfedge_id)),
   next_twin_he_id |-> Twin(m, NextOf(m, halfedge_id)),
   twin_he_id |-> Twin(m, halfedge_id),
   twin_prev_he_id |-> prev(m, Twin(m, halfedge_id)),
   twin_start_v_id |-> EndOf(m, prev(m, Twin(m, halfedge_id))),
   twin_prev_twin_he_id |-> Twin(m, prev(m, Twin(m, halfedge_id))),
   twin_next_he_id |-> NextOf(m, Twin(m, halfedge_id)),
   twin_opposite_v_id |-> EndOf(m, NextOf(m, Twin(m, halfedge_id))),
   twin_next_twin_he_id |-> Twin(m, NextOf(m, Twin(m, halfedge_id)))]

\* a flip that moves the two end vertices and leaves the surrounding
\* halfedges and twins as they were
FlipEndsOnly(m, halfedge_id) ==
  IF \/ ~Has(m.halfedges, halfedge_id) \/ NextOf(m, halfedge_id) = None
     \/ ~Has(m.halfedges, Twin(m, halfedge_id)) \/ NextOf(m, Twin(m, halfedge_id)) = None
  THEN m
  ELSE SetEnd(SetEnd(m, halfedge_id, EndOf(m, NextOf(m, halfedge_id))),
              Twin(m, halfedge_id), EndOf(m, NextOf(m, Twin(m, halfedge_id))))

flip_edge(m, halfedge_id) ==
  Bind(FlipRead(m, halfedge_id), LAMBDA f :
    IF \/ ~Has(m.halfedges, halfedge_id)
       \/ ~Has(m.halfedges, f.prev_he_id) \/ f.prev_twin_he_id = None
       \/ f.next_twin_he_id = None
       \/ ~Has(m.halfedges, f.twin_he_id)
       \/ ~Has(m.halfedges, f.twin_prev_he_id) \/ f.twin_prev_twin_he_id = None
       \/ f.twin_next_twin_he_id = None
    THEN m
    ELSE FlipAssign(m, halfedge_id, f))

(* ---------------- one-ring merge: the pairs of ranges (ops/merge.rs) ---------------- *)
MergeVerticesOneRing(rv, rh, rf, ah, af, av) ==
  [removed_vertices |-> rv, removed_halfedges |-> rh, removed_faces |-> rf,
   added_halfedges |-> ah, added_faces |-> af, added_vertices |-> av]

\* Halfedge::opposite_vertex: the end vertex of the next halfedge
opposite_vertex(m, h) == EndOf(m, NextOf(m, h))

\* the flip and the collapse of the shortcut, and what they add to the result
FlipAndCollapse(m, single_shared_he_id, res, rev, debug) ==
  Bind(collapse_edge(flip_edge(m, single_shared_he_id), single_shared_he_id, rev, debug),
       LAMBDA c :
    [m |-> c.m, taken |-> TRUE,
     res |-> [res EXCEPT !.removed_vertices = @ \o c.ret.vertices,
                         !.removed_halfedges = @ \o c.ret.halfedges,
                         !.removed_faces = @ \o c.ret.faces]])

flip_and_collapse_single_shared_edge_if_smaller(m, single_shared_he_id, flip_threshold_sqr, res, rev, debug) ==
  Bind(Twin(m, single_shared_he_id), LAMBDA twin_id :
    IF \/ ~Has(m.halfedges, twin_id)
       \/ ~Has(m.positions, opposite_vertex(m, single_shared_he_id))
       \/ ~Has(m.positions, opposite_vertex(m, twin_id))
       \/ distance_squared(m.positions[opposite_vertex(m, single_shared_he_id)],
                           m.positions[opposite_vertex(m, twin_id)]) > flip_threshold_sqr
    THEN [m |-> m, taken |-> FALSE, res |-> res]
    ELSE FlipAndCollapse(m, single_shared_he_id, res, rev, debug))

\* the shortcut of compute_range_pairs_to_connect: exactly two shared
\* vertices with a halfedge from the first to the second
Shortcut(m, common_v_ids, flip_threshold_sqr, res, rev, debug) ==
  IF Cardinality(common_v_ids) # 2 THEN [m |-> m, taken |-> FALSE, res |-> res]
  ELSE Bind(halfedge_from_to(m, HashOrder(common_v_ids, rev)[1], HashOrder(common_v_ids, rev)[2]),
            LAMBDA r :
         IF r.ret = None THEN [m |-> r.m, taken |-> FALSE, res |-> res]
         ELSE flip_and_collapse_single_shared_edge_if_smaller(r.m, r.ret, flip_threshold_sqr,
                                                              res, rev, debug))


\* the index, from idx on and cyclically, of the first element that is v_id
AdvanceTo(ring, idx, v_id) ==
  (idx + CHOOSE k \in 0..(Len(ring) - 1) :
           /\ At(ring, (idx + k) % Len(ring)) = v_id
           /\ \A j \in 0..(k - 1) : At(ring, (idx + j) % Len(ring)) # v_id) % Len(ring)

Walk(status, stop, start1, start2, end1, end2, pairs) ==
  [status |-> status, stop |-> stop, start_idx1 |-> start1, start_idx2 |-> start2,
   end_idx1 |-> end1, end_idx2 |-> end2, pairs |-> pairs]

\* the `if shared` branch: the pair up to the shared vertex at (end1, end2),
\* then past the run of shared vertices
WalkShared(c, w, end1, end2) ==
  Bind(Append(w.pairs, ConnectPair(<<w.start_idx1, end1>>, Len(c.ring1),
                                   <<w.start_idx2, end2>>, Len(c.ring2), TRUE)), LAMBDA pairs :
  Bind(SkipShared(c.ring1, Len(c.ring2), c.common, end1, end2, Len(c.ring1)), LAMBDA s :
    IF s.hang THEN Walk("hang", TRUE, w.start_idx1, w.start_idx2, end1, end2, pairs)
    ELSE IF c.debug /\ (s.idx1 = 0 \/ s.idx2 = 0)
    THEN Walk("panic", TRUE, w.start_idx1, w.start_idx2, s.idx1, s.idx2, pairs)
    ELSE Walk("ok", PredIndex(s.idx1, Len(c.ring1), c.debug) = c.orig_start_idx1,
              PredIndex(s.idx1, Len(c.ring1), c.debug), PredIndex(s.idx2, Len(c.ring2), c.debug),
              s.idx1, s.idx2, pairs)))

\* one round of the loop of compute_range_pairs_to_connect
WalkStep(c, w) ==
  IF At(c.ring1, w.end_idx1) \in c.common
  THEN WalkShared(c, w, w.end_idx1, AdvanceTo(c.ring2, w.end_idx2, At(c.ring1, w.end_idx1)))
  ELSE IF At(c.ring2, w.end_idx2) \in c.common
  THEN WalkShared(c, w, AdvanceTo(c.ring1, w.end_idx1, At(c.ring2, w.end_idx2)), w.end_idx2)
  ELSE Walk("ok", FALSE, w.start_idx1, w.start_idx2,
            (w.end_idx1 + 1) % Len(c.ring1), (w.end_idx2 + 1) % Len(c.ring2), w.pairs)

\* `while end_idx1 != orig_start_idx1`, left also by the break; the loop
\* never ends when it has made more rounds than it has index values
RECURSIVE WalkLoop(_, _, _)
WalkLoop(c, w, fuel) ==
  IF w.stop \/ w.end_idx1 = c.orig_start_idx1 THEN w
  ELSE IF fuel = 0 THEN [w EXCEPT !.status = "hang"]
  ELSE WalkLoop(c, WalkStep(c, w), fuel - 1)

\* |a - b|, or the way round the ring if that is shorter
RingDiff(a, b, len) ==
  IF (IF a < b THEN b - a ELSE a - b) < len - (IF a < b THEN b - a ELSE a - b)
  THEN (IF a < b THEN b - a ELSE a - b) ELSE len - (IF a < b THEN b - a ELSE a - b)

\* what follows the loop: the pair of the two whole rings if there is no
\* pair yet, else the pair of what remains if that is more than one edge
WalkFinish(c, w) ==
  IF w.pairs = <<>>
  THEN <<ConnectPair(<<c.orig_start_idx1, (c.orig_start_idx1 + Len(c.ring1) - 1) % Len(c.ring1)>>,
                     Len(c.ring1),
                     <<c.orig_start_idx2, (c.orig_start_idx2 + Len(c.ring2) - 1) % Len(c.ring2)>>,
                     Len(c.ring2), c.common # {})>>
  ELSE IF \/ RingDiff(w.start_idx1, w.end_idx1, Len(c.ring1)) > 1
          \/ RingDiff(w.start_idx2, w.end_idx2, Len(c.ring2)) > 1
  THEN Append(w.pairs, ConnectPair(<<w.start_idx1, w.end_idx1>>, Len(c.ring1),
                                   <<w.start_idx2, w.end_idx2>>, Len(c.ring2), c.common # {}))
  ELSE w.pairs

RangePairs(m, res, pairs) == [m |-> m, res |-> res, pairs |-> pairs]

\* compute_range_pairs_to_connect from the start indices on
WalkFrom(m, res, c) ==
  Bind(WalkLoop(c, Walk("ok", FALSE, c.orig_start_idx1, c.orig_start_idx2,
                        (c.orig_start_idx1 + 1) % Len(c.ring1),
                        (c.orig_start_idx2 + 1) % Len(c.ring2), <<>>),
                Len(c.ring1) * Len(c.ring1) * Len(c.ring2) * Len(c.ring2)), LAMBDA w :
    IF w.status = "hang" THEN RangePairs(Hang(m), res, <<>>)
    ELSE IF w.status = "panic" THEN RangePairs(Panic(m), res, <<>>)
    ELSE RangePairs(m, res, WalkFinish(c, w)))

compute_range_pairs_to_connect(m, one_ring_v_ids1, one_ring_v_ids2, flip_threshold_sqr, res, rev, debug, late) ==
  Bind(Range(one_ring_v_ids1) \cap Range(one_ring_v_ids2), LAMBDA common_v_ids :
  Bind(Shortcut(m, common_v_ids, flip_threshold_sqr, res, rev, debug), LAMBDA s :
    IF s.taken \/ ~Ok(s.m) THEN RangePairs(s.m, s.res, <<>>)
    ELSE Bind(find_start_indices(s.m, one_ring_v_ids1, one_ring_v_ids2, common_v_ids,
                                 rev, debug, late), LAMBDA i :
      IF i.status = "hang" THEN RangePairs(Hang(s.m), s.res, <<>>)
      ELSE IF i.status = "panic" THEN RangePairs(Panic(s.m), s.res, <<>>)
      ELSE IF ~i.some THEN RangePairs(s.m, s.res, <<>>)
      ELSE WalkFrom(s.m, s.res,
                    [ring1 |-> one_ring_v_ids1, ring2 |-> one_ring_v_ids2,
                     common |-> common_v_ids, debug |-> debug,
                     orig_start_idx1 |-> i.idx1, orig_start_idx2 |-> i.idx2]))))


(* ---------------- one-ring merge: the planned faces (ops/merge.rs) ---------------- *)
\* Pairing::first_pair / last_pair: the single vertex with the first / last
\* vertex of the other range; v_ids is <<ring 1, ring 2>>
PairAt(pairing, v_ids, other_idx) ==
  <<At(v_ids[pairing.single_range_idx],
       pairing.single_idx_in_range % Len(v_ids[pairing.single_range_idx])),
    At(v_ids[3 - pairing.single_range_idx],
       other_idx % Len(v_ids[3 - pairing.single_range_idx]))>>

first_pair(pairing, v_ids) == PairAt(pairing, v_ids, pairing.other_range[1])

last_pair(pairing, v_ids) == PairAt(pairing, v_ids, pairing.other_range[2])

\* Pairing::fill_faces: the fan from the single vertex over the other range
fill_faces(pairing, v_ids) ==
  [k \in 1..(pairing.other_range[2] - pairing.other_range[1]) |->
     <<PairAt(pairing, v_ids, 0)[1],
       PairAt(pairing, v_ids, pairing.other_range[1] + k)[2],
       PairAt(pairing, v_ids, pairing.other_range[1] + k - 1)[2]>>]

\* the two faces between the previous pair and the first pair of a pairing
QuadFaces(prev_pair, pair) ==
  IF prev_pair = <<>> THEN <<>>
  ELSE <<(<<prev_pair[1], pair[1], prev_pair[2]>>), (<<prev_pair[2], pair[1], pair[2]>>)>>

\* the loop of plan_new_faces over the pairings of one ConnectPair
RECURSIVE PlanPairings(_, _, _, _)
PlanPairings(pairings, i, prev_pair, v_ids) ==
  IF i > Len(pairings) THEN <<>>
  ELSE QuadFaces(prev_pair, first_pair(pairings[i], v_ids))
       \o fill_faces(pairings[i], v_ids)
       \o PlanPairings(pairings, i + 1, last_pair(pairings[i], v_ids), v_ids)

\* the two corner faces of a closed ConnectPair
ClosedFaces(pair, ring1, ring2) ==
  <<(<<At(ring1, pair.ranges[1][1] % Len(ring1)),
       At(ring1, ((pair.ranges[1][1] % Len(ring1)) + 1) % Len(ring1)),
       At(ring2, (pair.ranges[2][1] + 1) % Len(ring2))>>),
    (<<At(ring1, ((pair.ranges[1][2] % Len(ring1)) + Len(ring1) - 1) % Len(ring1)),
       At(ring1, pair.ranges[1][2] % Len(ring1)),
       At(ring2, (pair.ranges[2][2] + Len(ring2) - 1) % Len(ring2))>>)>>

\* the faces planned for one ConnectPair; `pairings.last().unwrap()` panics
\* when an open pair has no pairing
PlanPair(pair, ring1, ring2) ==
  Bind(compute_pairings(pair), LAMBDA pairings :
    IF pair.closed
    THEN [panic |-> FALSE,
          faces |-> ClosedFaces(pair, ring1, ring2)
                    \o PlanPairings(pairings, 1, <<>>, <<ring1, ring2>>)]
    ELSE IF pairings = <<>> THEN [panic |-> TRUE, faces |-> <<>>]
    ELSE [panic |-> FALSE,
          faces |-> PlanPairings(pairings, 1,
                                 last_pair(pairings[Len(pairings)], <<ring1, ring2>>),
                                 <<ring1, ring2>>)])

RECURSIVE plan_new_faces(_, _, _)
plan_new_faces(range_pairs_to_connect, one_ring_v_ids1, one_ring_v_ids2) ==
  IF range_pairs_to_connect = <<>> THEN [panic |-> FALSE, faces |-> <<>>]
  ELSE Bind(PlanPair(Head(range_pairs_to_connect), one_ring_v_ids1, one_ring_v_ids2), LAMBDA p :
       Bind(plan_new_faces(Tail(range_pairs_to_connect), one_ring_v_ids1, one_ring_v_ids2),
            LAMBDA rest :
         [panic |-> p.panic \/ rest.panic, faces |-> p.faces \o rest.faces]))

\* boundary_vertex_order: the two vertices in the direction of the boundary
\* halfedge between them
boundary_vertex_order(m, v_id1, v_id2) ==
  Bind(halfedge_from_to(m, v_id1, v_id2), LAMBDA r :
    [m |-> r.m,
     ret |-> IF r.ret = None \/ is_boundary(r.m, r.ret) THEN <<v_id1, v_id2>>
             ELSE <<v_id2, v_id1>>])

\* PlannedFace::make_ccw: the first of the pairs (0,1) (1,2) (2,0) that has a
\* halfedge is put in boundary order; with none the face stays as planned
make_ccw(m, f) ==
  Bind(halfedge_from_to(m, f[1], f[2]), LAMBDA r1 :
    IF r1.ret # None
    THEN Bind(boundary_vertex_order(r1.m, f[1], f[2]), LAMBDA o :
           [m |-> o.m, face |-> <<o.ret[1], o.ret[2], f[3]>>])
    ELSE Bind(halfedge_from_to(r1.m, f[2], f[3]), LAMBDA r2 :
      IF r2.ret # None
      THEN Bind(boundary_vertex_order(r2.m, f[2], f[3]), LAMBDA o :
             [m |-> o.m, face |-> <<f[1], o.ret[1], o.ret[2]>>])
      ELSE Bind(halfedge_from_to(r2.m, f[3], f[1]), LAMBDA r3 :
        IF r3.ret # None
        THEN Bind(boundary_vertex_order(r3.m, f[3], f[1]), LAMBDA o :
               [m |-> o.m, face |-> <<o.ret[2], f[2], o.ret[1]>>])
        ELSE [m |-> r3.m, face |-> f])))


(* ---------------- one-ring merge: the operation (ops/merge.rs) ---------------- *)
\* the mesh, the result and the caller's two marked sets during the merge;
\* done: the function has returned early
MergeAcc(m, res, marked_halfedges, marked_vertices) ==
  [m |-> m, res |-> res, marked_halfedges |-> marked_halfedges,
   marked_vertices |-> marked_vertices, done |-> FALSE]

\* what the caller has after the call
MergeReturn(a) ==
  [m |-> a.m,
   ret |-> [result |-> a.res, marked_halfedges |-> a.marked_halfedges,
            marked_vertices |-> a.marked_vertices]]

RECURSIVE DeleteNeighbours(_, _, _, _)
DeleteNeighbours(a, face_ids, i, rev) ==
  IF i > Len(face_ids) \/ ~Ok(a.m) THEN a
  ELSE Bind(delete_face(a.m, face_ids[i], rev), LAMBDA d :
         DeleteNeighbours([a EXCEPT !.m = d.m,
                                    !.res.removed_faces = Append(@, face_ids[i]),
                                    !.res.removed_vertices = @ \o d.ret.vertices,
                                    !.res.removed_halfedges = @ \o d.ret.halfedges],
                          face_ids, i + 1, rev))

\* the faces of vertex 1, then those of vertex 2, listed before any is deleted
delete_neighbour_faces(a, vertex_id1, vertex_id2, rev) ==
  DeleteNeighbours(a, VertexFaces(a.m, vertex_id1) \o VertexFaces(a.m, vertex_id2), 1, rev)

\* the halfedges among he_ids that run from one ring to the other
Seam(m, he_ids, one_ring_set1, one_ring_set2) ==
  {h \in Range(he_ids) :
     \/ start_vertex(m, h) \in one_ring_set1 /\ EndOf(m, h) \in one_ring_set2
     \/ start_vertex(m, h) \in one_ring_set2 /\ EndOf(m, h) \in one_ring_set1}

\* one planned face: oriented, inserted, its new seam halfedges marked; a new
\* halfedge without a start vertex ends the whole merge there
InsertOne(a, f, one_ring_set1, one_ring_set2) ==
  Bind(make_ccw(a.m, f), LAMBDA cc :
  Bind(create_face_from_vertices(cc.m, cc.face[1], cc.face[2], cc.face[3]), LAMBDA ins :
  Bind(FirstIndex(ins.ret.halfedge_ids, LAMBDA h : start_vertex(ins.m, h) = None), LAMBDA bad :
    IF bad # 0
    THEN [a EXCEPT !.m = ins.m, !.done = TRUE,
                   !.marked_halfedges = @ \cup Seam(ins.m, SubSeq(ins.ret.halfedge_ids, 1, bad - 1),
                                                    one_ring_set1, one_ring_set2)]
    ELSE [a EXCEPT !.m = ins.m,
                   !.marked_halfedges = @ \cup Seam(ins.m, ins.ret.halfedge_ids,
                                                    one_ring_set1, one_ring_set2),
                   !.res.added_halfedges = @ \o ins.ret.halfedge_ids,
                   !.res.added_faces = Append(@, ins.ret.face_id)])))

RECURSIVE InsertPlanned(_, _, _, _, _)
InsertPlanned(a, planned_faces, i, one_ring_set1, one_ring_set2) ==
  IF i > Len(planned_faces) \/ a.done \/ ~Ok(a.m) THEN a
  ELSE InsertPlanned(InsertOne(a, planned_faces[i], one_ring_set1, one_ring_set2),
                     planned_faces, i + 1, one_ring_set1, one_ring_set2)

\* the repair of one ring vertex and what it adds to the result
CleanupOne(a, cleanup) ==
  [a EXCEPT !.m = cleanup.m,
            !.res.added_vertices = IF cleanup.ret.split_vertices = <<>> THEN @
                                   ELSE Append(@, cleanup.ret.split_vertices[2]),
            !.marked_vertices = @ \cup Range(cleanup.ret.split_vertices),
            !.res.removed_vertices = @ \o cleanup.ret.removed_vertices,
            !.res.removed_halfedges = @ \o cleanup.ret.removed_halfedges,
            !.res.removed_faces = @ \o cleanup.ret.removed_faces]

\* the last loop: every vertex of the two rings that is still in the mesh
RECURSIVE CleanupRings(_, _, _, _, _)
CleanupRings(a, vertex_ids, i, rev, debug) ==
  IF i > Len(vertex_ids) \/ ~Ok(a.m) THEN a
  ELSE IF ~Has(a.m.vertices, vertex_ids[i]) THEN CleanupRings(a, vertex_ids, i + 1, rev, debug)
  ELSE CleanupRings(CleanupOne(a, make_vertex_neighborhood_manifold(a.m, vertex_ids[i], rev, debug)),
                    vertex_ids, i + 1, rev, debug)

\* the merge once the pairs of ranges are known
MergePairs(a, c, vertex_id1, vertex_id2, one_ring_v_ids1, one_ring_v_ids2, rev, debug) ==
  IF ~Ok(c.m) \/ c.pairs = <<>> THEN MergeReturn([a EXCEPT !.m = c.m, !.res = c.res])
  ELSE Bind(plan_new_faces(c.pairs, one_ring_v_ids1, one_ring_v_ids2), LAMBDA p :
    IF p.panic THEN MergeReturn([a EXCEPT !.m = Panic(c.m), !.res = c.res])
    ELSE Bind(delete_neighbour_faces([a EXCEPT !.m = c.m, !.res = c.res],
                                     vertex_id1, vertex_id2, rev), LAMBDA d :
         Bind(InsertPlanned(d, p.faces, 1, Range(one_ring_v_ids1), Range(one_ring_v_ids2)),
              LAMBDA ins :
           IF ins.done \/ ~Ok(ins.m) THEN MergeReturn(ins)
           ELSE MergeReturn(CleanupRings(ins, one_ring_v_ids1 \o one_ring_v_ids2, 1,
                                         rev, debug)))))

\* the merge once the two rings are known (ring 2 already reversed)
MergeRings(a, vertex_id1, vertex_id2, one_ring_v_ids1, one_ring_v_ids2, flip_threshold_sqr, rev, debug, late) ==
  IF Len(one_ring_v_ids1) < 3 \/ Len(one_ring_v_ids2) < 3 THEN MergeReturn(a)
  ELSE MergePairs(a, compute_range_pairs_to_connect(a.m, one_ring_v_ids1, one_ring_v_ids2,
                                                    flip_threshold_sqr, a.res, rev, debug, late),
                  vertex_id1, vertex_id2, one_ring_v_ids1, one_ring_v_ids2, rev, debug)

\* collecting a ring: an endless fan traversal never returns, the index of a
\* ring halfedge that is not in the arena panics
RingStatus(m, vertex_id) ==
  IF VertexOutgoingHangs(m, vertex_id) THEN "hang"
  ELSE IF \E i \in DOMAIN one_ring(m, vertex_id) : ~Has(m.halfedges, one_ring(m, vertex_id)[i])
  THEN "panic"
  ELSE "ok"

RingVertices(m, vertex_id) == MapSeq(one_ring(m, vertex_id), LAMBDA h : EndOf(m, h))

merge_vertices_one_rings(m, vertex_id1, vertex_id2, flip_threshold_sqr, marked_halfedges, marked_vertices, rev, debug, late) ==
  Bind(MergeAcc(m, MergeVerticesOneRing(<<>>, <<>>, <<>>, <<>>, <<>>, <<>>),
                marked_halfedges, marked_vertices), LAMBDA a :
    IF ~Has(m.vertices, vertex_id1) \/ ~Has(m.vertices, vertex_id2) THEN MergeReturn(a)
    ELSE IF RingStatus(m, vertex_id1) = "hang" THEN MergeReturn([a EXCEPT !.m = Hang(m)])
    ELSE IF RingStatus(m, vertex_id1) = "panic" THEN MergeReturn([a EXCEPT !.m = Panic(m)])
    ELSE IF RingStatus(m, vertex_id2) = "hang" THEN MergeReturn([a EXCEPT !.m = Hang(m)])
    ELSE IF RingStatus(m, vertex_id2) = "panic" THEN MergeReturn([a EXCEPT !.m = Panic(m)])
    ELSE MergeRings(a, vertex_id1, vertex_id2, RingVertices(m, vertex_id1),
                    Reverse(RingVertices(m, vertex_id2)), flip_threshold_sqr, rev, debug, late))


(* ---------------- the mesh under a sequence of API calls ---------------- *)
PositionInputs == {<<0, 0>>}

Call(op, args) == [op |-> op, args |-> args]

Init ==
  /\ mesh = EmptyMesh
  /\ result = None
  /\ last = Call("new", <<>>)
  /\ calls = 0

LiveV == DOMAIN mesh.vertices
LiveH == DOMAIN mesh.halfedges
LiveF == DOMAIN mesh.faces

\* the call fits the id spaces and the number of calls of the model
Fits(m) ==
  /\ m.nv <= MaxVertexIds
  /\ m.nh <= MaxHalfedgeIds
  /\ m.nf <= MaxFaceIds

Do(r, op, args) ==
  /\ Ok(mesh)
  /\ calls < MaxCalls
  /\ Fits(r.m)
  /\ mesh' = r.m
  /\ result' = r.ret
  /\ last' = Call(op, args)
  /\ calls' = calls + 1

InsertVertex ==
  \E p \in PositionInputs :
    /\ Do(insert_vertex(mesh, p), "insert_vertex", <<p>>)

InsertOrGetEdge ==
  \E a \in LiveV, b \in LiveV :
    /\ Do(insert_or_get_edge(mesh, a, b), "insert_or_get_edge", <<a, b>>)

CreateFaceFromPositions ==
  \E a \in PositionInputs, b \in PositionInputs, c \in PositionInputs :
    /\ Do(create_face_from_positions(mesh, a, b, c), "create_face_from_positions", <<a, b, c>>)

CreateFaceFromHalfedgeAndPosition ==
  \E h \in LiveH, p \in PositionInputs :
    /\ Do(create_face_from_halfedge_and_position(mesh, h, p),
          "create_face_from_halfedge_and_position", <<h, p>>)

CreateFaceFromHalfedgeAndVertex ==
  \E h \in LiveH, v \in LiveV :
    /\ Do(create_face_from_halfedge_and_vertex(mesh, h, v),
          "create_face_from_halfedge_and_vertex", <<h, v>>)

CreateFaceFromVertices ==
  \E a \in LiveV, b \in LiveV, c \in LiveV :
    /\ Do(create_face_from_vertices(mesh, a, b, c), "create_face_from_vertices", <<a, b, c>>)

CreateFaceFromHalfedges ==
  \E h1 \in LiveH, h2 \in LiveH :
    /\ Do(create_face_from_halfedges(mesh, h1, h2), "create_face_from_halfedges", <<h1, h2>>)

\* any face id ever handed out, live or already removed
DeleteFace ==
  \E f \in 1..mesh.nf, rev \in BOOLEAN :
    /\ Do(delete_face(mesh, f, rev), "delete_face", <<f>>)

Next ==
  \/ InsertVertex
  \/ InsertOrGetEdge
  \/ CreateFaceFromPositions
  \/ CreateFaceFromHalfedgeAndPosition
  \/ CreateFaceFromHalfedgeAndVertex
  \/ CreateFaceFromVertices
  \/ CreateFaceFromHalfedges
  \/ DeleteFace

Spec == Init /\ [][Next]_vars

(* ---------------- the mesh under builders and neighbourhood repair ---------------- *)
RepairPositions == {<<0, 0>>, <<1, 0>>, <<0, 1>>, <<1, 1>>}
RepairTriangles == {<<(<<0, 0>>), (<<1, 0>>), (<<0, 1>>)>>}

FitsRepair(m) ==
  /\ m.nv <= MaxRepairVertexIds
  /\ m.nh <= MaxRepairHalfedgeIds
  /\ m.nf <= MaxRepairFaceIds

DoRepair(r, op, args) ==
  /\ Ok(mesh)
  /\ calls < MaxRepairCalls
  /\ FitsRepair(r.m)
  /\ mesh' = r.m
  /\ result' = r.ret
  /\ last' = Call(op, args)
  /\ calls' = calls + 1

RepairSeed ==
  \E t \in RepairTriangles :
    /\ DoRepair(create_face_from_positions(mesh, t[1], t[2], t[3]),
                "create_face_from_positions", t)

RepairGrow ==
  \E h \in LiveH, p \in RepairPositions :
    /\ DoRepair(create_face_from_halfedge_and_position(mesh, h, p),
                "create_face_from_halfedge_and_position", <<h, p>>)

RepairClose ==
  \E h \in LiveH, v \in LiveV :
    /\ DoRepair(create_face_from_halfedge_and_vertex(mesh, h, v),
                "create_face_from_halfedge_and_vertex", <<h, v>>)

RepairDelete ==
  \E f \in LiveF, rev \in BOOLEAN :
    /\ DoRepair(delete_face(mesh, f, rev), "delete_face", <<f>>)

\* the second argument counts the consecutive calls on the same vertex
MakeVertexNeighborhoodManifold ==
  \E v \in LiveV, rev \in BOOLEAN, debug \in BOOLEAN :
    /\ DoRepair(make_vertex_neighborhood_manifold(mesh, v, rev, debug),
                "make_vertex_neighborhood_manifold",
                <<v, IF last.op = "make_vertex_neighborhood_manifold" /\ last.args[1] = v
                     THEN last.args[2] + 1 ELSE 1>>)

NextRepair ==
  \/ RepairSeed
  \/ RepairGrow
  \/ RepairClose
  \/ RepairDelete
  \/ MakeVertexNeighborhoodManifold

SpecRepair == Init /\ [][NextRepair]_vars

(* ---------------- the collapse fixture (ops/collapse.rs, test_collapse_edge) ---------------- *)
\* the positions of the test, in eighths of a unit: (0,0) (0,4) (1,2) for
\* the first face, then (2,4) (3,2) (4,4) (4,0) (2,0)
FixtureTriangle == <<(<<0, 0>>), (<<0, 32>>), (<<8, 16>>)>>

\* for the faces 2..6: the face whose halfedge is extended, the index of that
\* halfedge in Face::halfedges (from 1) and the position of the new vertex
FixtureGrowth ==
  <<[face |-> 1, nth |-> 2, pos |-> <<16, 32>>],
    [face |-> 2, nth |-> 3, pos |-> <<24, 16>>],
    [face |-> 3, nth |-> 2, pos |-> <<32, 32>>],
    [face |-> 4, nth |-> 3, pos |-> <<32, 0>>],
    [face |-> 5, nth |-> 3, pos |-> <<16, 0>>]>>

\* for the faces 7 and 8: the two halfedges that are bridged
FixtureBridges ==
  <<[face1 |-> 6, nth1 |-> 3, face2 |-> 3, nth2 |-> 3],
    [face1 |-> 1, nth1 |-> 3, face2 |-> 7, nth2 |-> 1]>>

\* the edge the test collapses: the third halfedge of face 3
FixtureEdge(m) == FaceHalfedges(m, 3)[3]

DoFixture(r, op, args) ==
  /\ Ok(mesh)
  /\ mesh' = r.m
  /\ result' = r.ret
  /\ last' = Call(op, args)
  /\ calls' = calls + 1

\* no collapse_edge call yet: every call so far has built one face
Building == calls = mesh.nf

FixtureSeed ==
  /\ mesh.nf = 0
  /\ DoFixture(create_face_from_positions(mesh, FixtureTriangle[1], FixtureTriangle[2],
                                          FixtureTriangle[3]),
               "create_face_from_positions", FixtureTriangle)

FixtureGrow ==
  /\ Building
  /\ mesh.nf \in DOMAIN FixtureGrowth
  /\ Bind(FixtureGrowth[mesh.nf], LAMBDA g :
       DoFixture(create_face_from_halfedge_and_position(
                   mesh, FaceHalfedges(mesh, g.face)[g.nth], g.pos),
                 "create_face_from_halfedge_and_position",
                 <<FaceHalfedges(mesh, g.face)[g.nth], g.pos>>))

FixtureBridge ==
  /\ Building
  /\ mesh.nf - Len(FixtureGrowth) \in DOMAIN FixtureBridges
  /\ Bind(FixtureBridges[mesh.nf - Len(FixtureGrowth)], LAMBDA b :
       DoFixture(create_face_from_halfedges(
                   mesh, FaceHalfedges(mesh, b.face1)[b.nth1],
                   FaceHalfedges(mesh, b.face2)[b.nth2]),
                 "create_face_from_halfedges",
                 <<FaceHalfedges(mesh, b.face1)[b.nth1], FaceHalfedges(mesh, b.face2)[b.nth2]>>))

CollapseEdge ==
  \E h \in LiveH, rev \in BOOLEAN, debug \in BOOLEAN :
    /\ calls - mesh.nf < MaxCollapses
    /\ DoFixture(collapse_edge(mesh, h, rev, debug), "collapse_edge", <<h>>)

NextCollapse ==
  \/ FixtureSeed
  \/ FixtureGrow
  \/ FixtureBridge
  \/ CollapseEdge

SpecCollapse == Init /\ [][NextCollapse]_vars

(* ---------------- the merge fixtures (utils.rs extend_with, ops/merge.rs tests) ---------------- *)
\* floor of the square root
ISqrt(x) == CHOOSE r \in 0..x : r * r <= x /\ x < (r + 1) * (r + 1)

\* point_1 + (point_2 - point_1) * 0.5 + (point_1 + point_2).normalize() * scalar / steps
\* with z set to 0; positions and scalar are in sixteenths of a unit and the
\* result is rounded to that grid
CornerPoint(p1, p2, scalar, steps) ==
  Bind(ISqrt((p1[1] + p2[1]) * (p1[1] + p2[1]) + (p1[2] + p2[2]) * (p1[2] + p2[2])
             + (p1[3] + p2[3]) * (p1[3] + p2[3])), LAMBDA norm :
    <<p1[1] + ((p2[1] - p1[1]) \div 2) + (((p1[1] + p2[1]) * scalar) \div (norm * steps)),
      p1[2] + ((p2[2] - p1[2]) \div 2) + (((p1[2] + p2[2]) * scalar) \div (norm * steps)),
      0>>)

\* first loop of extend_outer_corners: one corner vertex per outer edge
RECURSIVE InsertCorners(_, _, _, _, _)
InsertCorners(m, outer_vertex_ids, scalar, steps, i) ==
  IF i > Len(outer_vertex_ids) THEN m
  ELSE InsertCorners(insert_vertex(m, CornerPoint(m.positions[outer_vertex_ids[i]],
                                                  m.positions[outer_vertex_ids[
                                                    (i % Len(outer_vertex_ids)) + 1]],
                                                  scalar, steps)).m,
                     outer_vertex_ids, scalar, steps, i + 1)

\* create_face_from_halfedges(..).unwrap()
UnwrapFace(r) == IF r.ret.some THEN r.m ELSE Panic(r.m)

\* one round of the second loop: the face (vertex, corner, next vertex) and
\* the face (corner, next vertex, next corner)
CornerFaces(m, vertex_id, next_vertex_id, corner_vertex_id, next_corner_vertex_id) ==
  Bind(insert_or_get_edge(m, vertex_id, corner_vertex_id), LAMBDA e1 :
  Bind(insert_or_get_edge(e1.m, vertex_id, next_vertex_id), LAMBDA e2 :
  Bind(UnwrapFace(create_face_from_halfedges(e2.m, e1.ret.start_to_end_he_id,
                                             e2.ret.start_to_end_he_id)), LAMBDA m1 :
    IF ~Ok(m1) THEN m1
    ELSE Bind(insert_or_get_edge(m1, corner_vertex_id, next_vertex_id), LAMBDA e3 :
         Bind(insert_or_get_edge(e3.m, next_vertex_id, next_corner_vertex_id), LAMBDA e4 :
           UnwrapFace(create_face_from_halfedges(e4.m, e3.ret.start_to_end_he_id,
                                                 e4.ret.start_to_end_he_id)))))))

RECURSIVE CornerLoop(_, _, _, _)
CornerLoop(m, outer_vertex_ids, corner_vertex_ids, i) ==
  IF i > Len(outer_vertex_ids) \/ ~Ok(m) THEN m
  ELSE CornerLoop(CornerFaces(m, outer_vertex_ids[i],
                              outer_vertex_ids[(i % Len(outer_vertex_ids)) + 1],
                              corner_vertex_ids[i],
                              corner_vertex_ids[(i % Len(outer_vertex_ids)) + 1]),
                  outer_vertex_ids, corner_vertex_ids, i + 1)

\* extend_outer_corners; ret is what the call appends to new_vertex_ids
RECURSIVE extend_outer_corners(_, _, _, _)
extend_outer_corners(m, outer_vertex_ids, scalar, steps) ==
  IF steps = 0 THEN [m |-> m, ret |-> <<>>]
  ELSE Bind([k \in 1..Len(outer_vertex_ids) |-> m.nv + k], LAMBDA corner_vertex_ids :
       Bind(CornerLoop(InsertCorners(m, outer_vertex_ids, scalar, steps, 1),
                       outer_vertex_ids, corner_vertex_ids, 1), LAMBDA m1 :
         IF ~Ok(m1) THEN [m |-> m1, ret |-> <<>>]
         ELSE Bind(extend_outer_corners(m1, corner_vertex_ids, scalar, steps - 1), LAMBDA deeper :
                [m |-> deeper.m, ret |-> deeper.ret \o corner_vertex_ids])))

\* first loop of extend_with: a vertex per point and the edge from the center
RECURSIVE Spokes(_, _, _, _)
Spokes(m, center_id, points, i) ==
  IF i > Len(points) THEN [m |-> m, halfedge_ids |-> <<>>]
  ELSE Bind(insert_or_get_edge(insert_vertex(m, points[i]).m, center_id, m.nv + 1), LAMBDA e :
       Bind(Spokes(e.m, center_id, points, i + 1), LAMBDA rest :
         [m |-> rest.m, halfedge_ids |-> <<e.ret.start_to_end_he_id>> \o rest.halfedge_ids]))

\* second loop of extend_with: the face between each spoke and the next
RECURSIVE StarFaces(_, _, _)
StarFaces(m, halfedge_ids, i) ==
  IF i > Len(halfedge_ids) \/ ~Ok(m) THEN m
  ELSE StarFaces(UnwrapFace(create_face_from_halfedges(m, halfedge_ids[i],
                                                       halfedge_ids[(i % Len(halfedge_ids)) + 1])),
                 halfedge_ids, i + 1)

\* Mat4::transform_point3 of an affine matrix given by its four columns
transform_point3(matrix, p) ==
  <<matrix[1][1] * p[1] + matrix[2][1] * p[2] + matrix[3][1] * p[3] + matrix[4][1],
    matrix[1][2] * p[1] + matrix[2][2] * p[2] + matrix[3][2] * p[3] + matrix[4][2],
    matrix[1][3] * p[1] + matrix[2][3] * p[2] + matrix[3][3] * p[3] + matrix[4][3]>>

\* last loop of extend_with: the new vertices are moved by the matrix
TransformAll(m, new_vertex_ids, matrix) ==
  [m EXCEPT !.positions = [v \in DOMAIN @ |-> IF v \in Range(new_vertex_ids)
                                               THEN transform_point3(matrix, @[v]) ELSE @[v]]]

extend_with(m, center_and_points, matrix, scalar, steps) ==
  Bind(Spokes(insert_vertex(m, Head(center_and_points)).m, m.nv + 1,
              Tail(center_and_points), 1), LAMBDA s :
  Bind([k \in 1..Len(Tail(center_and_points)) |-> m.nv + 1 + k], LAMBDA vertex_ids :
  Bind(StarFaces(s.m, s.halfedge_ids, 1), LAMBDA m1 :
    IF ~Ok(m1) THEN [m |-> m1, ret |-> <<>>]
    ELSE Bind(extend_outer_corners(m1, vertex_ids, scalar, steps), LAMBDA outer :
      IF ~Ok(outer.m) THEN [m |-> outer.m, ret |-> <<>>]
      ELSE [m |-> TransformAll(outer.m, <<m.nv + 1>> \o vertex_ids \o outer.ret, matrix),
            ret |-> <<m.nv + 1>> \o vertex_ids \o outer.ret]))))


\* the centre and the rings of the stars, in sixteenths of a unit: the
\* hexagon and the pentagon of the tests, a triangle, a square and a heptagon
StarCenter == <<0, 0, 16>>

StarRings ==
  {<<(<<0, 16, 0>>), (<<-16, 8, 0>>), (<<-16, -8, 0>>), (<<0, -16, 0>>), (<<16, -8, 0>>),
     (<<16, 8, 0>>)>>,
   <<(<<0, 16, 0>>), (<<-16, 0, 0>>), (<<-8, -16, 0>>), (<<8, -16, 0>>), (<<16, 0, 0>>)>>,
   <<(<<0, 16, 0>>), (<<-16, -8, 0>>), (<<16, -8, 0>>)>>,
   <<(<<0, 16, 0>>), (<<-16, 0, 0>>), (<<0, -16, 0>>), (<<16, 0, 0>>)>>,
   <<(<<0, 16, 0>>), (<<-12, 10, 0>>), (<<-16, -2, 0>>), (<<-8, -14, 0>>), (<<8, -14, 0>>),
     (<<16, -2, 0>>), (<<12, 10, 0>>)>>}

\* the k-th star is moved by the k-th matrix: Mat4::default() for the first,
\* for the second the rotation by pi about x after the rotation by pi/2
\* about z, (x, y, z) -> (-y, -x, -z), and the translation by (0, 0, 3)
StarMatrices ==
  <<(<<(<<1, 0, 0>>), (<<0, 1, 0>>), (<<0, 0, 1>>), (<<0, 0, 0>>)>>),
    (<<(<<0, -1, 0>>), (<<-1, 0, 0>>), (<<0, 0, -1>>), (<<0, 0, 48>>)>>)>>

\* the scalar 2.0 of the tests
StarScalar == 32

\* steps of the tests (1) and of a bare star (0)
StarSteps == {0, 1}

\* the flip threshold 1.0 of the tests, squared
FlipThresholdSqr == 256

\* the first ids returned by the extend_with calls so far
Centers == IF last.op = "extend_with" THEN result.centers ELSE <<>>

ExtendWith ==
  \E ring \in StarRings, turn \in 0..Len(Centers), steps \in StarSteps :
    /\ last.op \in {"new", "extend_with"}
    /\ Len(Centers) < Len(StarMatrices)
    /\ Bind(extend_with(mesh, <<StarCenter>> \o [i \in 1..Len(ring) |->
                                                  ring[((i - 1 + turn) % Len(ring)) + 1]],
                        StarMatrices[Len(Centers) + 1], StarScalar, steps), LAMBDA r :
         DoFixture([m |-> r.m, ret |-> [centers |-> Append(Centers, r.ret[1]),
                                        vertex_ids |-> r.ret]],
                   "extend_with", <<Len(ring), turn, steps>>))

MergeVerticesOneRings ==
  \E i \in DOMAIN Centers, j \in DOMAIN Centers, rev \in BOOLEAN, debug \in BOOLEAN,
     late \in BOOLEAN :
    /\ last.op = "extend_with"
    /\ Len(Centers) = Len(StarMatrices)
    /\ DoFixture(merge_vertices_one_rings(mesh, Centers[i], Centers[j], FlipThresholdSqr,
                                          {}, {}, rev, debug, late),
                 "merge_vertices_one_rings", <<Centers[i], Centers[j]>>)

NextMerge ==
  \/ ExtendWith
  \/ MergeVerticesOneRings

SpecMerge == Init /\ [][NextMerge]_vars


(* ---------------- derived notions used by the properties ---------------- *)
\* every live halfedge has a present, live twin whose twin is the halfedge
TwinInvolutive(m) ==
  \A h \in DOMAIN m.halfedges :
    LET t == m.halfedges[h].twin
    IN t # None /\ Has(m.halfedges, t) /\ m.halfedges[t].twin = h

\* live halfedges whose derived start vertex is v
StartingAt(m, v) == {h \in DOMAIN m.halfedges : start_vertex(m, h) = v}

\* the adjacency list of v is exactly the halfedges starting at v, each once
AdjacencyExact(m, v) ==
  /\ Has(m.outgoing_halfedges, v)
  /\ Range(m.outgoing_halfedges[v]) = StartingAt(m, v)
  /\ Len(m.outgoing_halfedges[v]) = Cardinality(StartingAt(m, v))

\* the face is a 3-cycle of live halfedges that all belong to it
FaceIsTriangle(m, f) ==
  LET h0 == m.faces[f].halfedge
  IN /\ Has(m.halfedges, h0)
     /\ LET h1 == m.halfedges[h0].next
        IN /\ h1 # None /\ Has(m.halfedges, h1) /\ h1 # h0
           /\ LET h2 == m.halfedges[h1].next
              IN /\ h2 # None /\ Has(m.halfedges, h2) /\ h2 # h0 /\ h2 # h1
                 /\ m.halfedges[h2].next = h0
                 /\ m.halfedges[h0].face = f
                 /\ m.halfedges[h1].face = f
                 /\ m.halfedges[h2].face = f

\* the canonical outgoing halfedge of v is absent or a listed live halfedge
\* that starts at v
CanonicalOk(m, v) ==
  LET c == m.vertices[v].outgoing_halfedge
  IN c # None =>
       /\ Has(m.halfedges, c)
       /\ start_vertex(m, c) = v
       /\ Has(m.outgoing_halfedges, v)
       /\ c \in Range(m.outgoing_halfedges[v])

\* the invariants of section 3 of the specification ("settled" mesh)
Settled(m) ==
  /\ Ok(m)
  /\ TwinInvolutive(m)
  /\ \A h \in DOMAIN m.halfedges :
       /\ Has(m.vertices, m.halfedges[h].end_vertex)
       /\ m.halfedges[h].face # None =>
            /\ Has(m.faces, m.halfedges[h].face)
            /\ m.halfedges[h].next # None
       /\ m.halfedges[h].face = None => m.halfedges[h].next = None
  /\ \A f \in DOMAIN m.faces : FaceIsTriangle(m, f)
  /\ \A v \in DOMAIN m.vertices : AdjacencyExact(m, v) /\ CanonicalOk(m, v)

(* ---------------- C1 ---------------- *)
\* C1: after any sequence of insert_vertex, insert_or_get_edge, face builder
\* and delete_face calls from the empty mesh, every live halfedge has a live
\* twin whose twin is the halfedge itself.
C1_TwinInvolution == Ok(mesh) => TwinInvolutive(mesh)

\* the mesh grown by the checked face builders alone
NextBuilders ==
  \/ CreateFaceFromPositions
  \/ CreateFaceFromHalfedgeAndPosition
  \/ CreateFaceFromHalfedgeAndVertex
  \/ CreateFaceFromHalfedges

SpecBuilders == Init /\ [][NextBuilders]_vars

\* C2: after any sequence of checked face builder calls every live face is a
\* 3-cycle of next pointers whose three halfedges all belong to that face.
C2_FacesAreTriangles == Ok(mesh) => \A f \in LiveF : FaceIsTriangle(mesh, f)

\* C3: for every live vertex the adjacency list holds exactly the live
\* halfedges that start at it, each once, and no removed halfedge id.
C3_AdjacencyExact == Ok(mesh) => \A v \in LiveV : AdjacencyExact(mesh, v)

\* C5: when delete_face(f) has returned, f is not in the face arena and no
\* returned vertex or halfedge id is in its arena.
C5_DeletionClean ==
  (last.op = "delete_face" /\ Ok(mesh)) =>
    /\ last.args[1] \notin LiveF
    /\ Range(result.vertices) \cap LiveV = {}
    /\ Range(result.halfedges) \cap LiveH = {}

\* C6: delete_face never panics, also for a face id that is not (or no
\* longer) in the face arena.
C6_DeleteFaceNeverPanics == last.op = "delete_face" => mesh.status # "panic"

\* vertices of face f: the end vertices of the halfedges that belong to f
FaceVertices(m, f) ==
  {m.halfedges[h].end_vertex : h \in {g \in DOMAIN m.halfedges : m.halfedges[g].face = f}}

\* the canonical outgoing halfedge of v is present, live, starts at v and is
\* listed in the adjacency list of v
CanonicalPresent(m, v) ==
  /\ m.vertices[v].outgoing_halfedge # None
  /\ CanonicalOk(m, v)

\* C7: delete_face on a settled mesh leaves every surviving vertex of the
\* deleted face that still has a live outgoing halfedge with a present, live
\* canonical outgoing halfedge that starts at it and is in its adjacency list.
C7_CanonicalRepaired ==
  [][(Settled(mesh) /\ last'.op = "delete_face" /\ Ok(mesh')) =>
       \A v \in FaceVertices(mesh, last'.args[1]) \cap DOMAIN mesh'.vertices :
         StartingAt(mesh', v) # {} => CanonicalPresent(mesh', v)]_vars

\* number of live halfedges from a to b
EdgeCount(m, a, b) ==
  Cardinality({h \in StartingAt(m, a) : m.halfedges[h].end_vertex = b})

\* C4: insert_or_get_edge(a, b) called twice returns the same pair of halfedge
\* ids and reports nothing new the second time; the mesh holds at most one
\* halfedge a -> b and one b -> a; a following call with (b, a) returns the
\* two ids swapped.
C4_EdgeIdempotent ==
  [][(last'.op = "insert_or_get_edge" /\ Ok(mesh')) =>
       LET a == last'.args[1]
           b == last'.args[2]
       IN /\ EdgeCount(mesh', a, b) <= 1
          /\ EdgeCount(mesh', b, a) <= 1
          /\ (last.op = "insert_or_get_edge" /\ last.args = <<a, b>>) =>
               /\ result'.start_to_end_he_id = result.start_to_end_he_id
               /\ result'.twin_he_id = result.twin_he_id
               /\ ~result'.new_start_to_end
               /\ ~result'.new_twin
          /\ (last.op = "insert_or_get_edge" /\ last.args = <<b, a>>) =>
               /\ result'.start_to_end_he_id = result.twin_he_id
               /\ result'.twin_he_id = result.start_to_end_he_id]_vars

(* ---------------- neighbourhood repair on a coincidence-free vertex ---------------- *)
\* the faces around a vertex: those with a halfedge that starts or ends there
FacesAround(m, v) ==
  {m.halfedges[h].face : h \in {x \in DOMAIN m.halfedges :
       /\ m.halfedges[x].face \in DOMAIN m.faces
       /\ (m.halfedges[x].end_vertex = v \/ start_vertex(m, x) = v)}}

\* the positions of the corners of a face
FacePositions(m, f) ==
  {m.positions[m.halfedges[h].end_vertex] : h \in {x \in DOMAIN m.halfedges :
       m.halfedges[x].face = f /\ Has(m.positions, m.halfedges[x].end_vertex)}}

\* the live halfedges that leave a vertex, by their twin or by its list
LeavingHalfedges(m, v) ==
  {h \in DOMAIN m.halfedges : start_vertex(m, h) = v \/ h \in Range(ListOf(m, v))}

\* no face around v has all its corner positions among those of another face
\* around v, and no two halfedges that leave v end at the same vertex
CoincidenceFree(m, v) ==
  /\ Has(m.vertices, v)
  /\ \A f1 \in FacesAround(m, v), f2 \in FacesAround(m, v) :
       f1 # f2 => ~(FacePositions(m, f1) \subseteq FacePositions(m, f2))
  /\ \A h1 \in LeavingHalfedges(m, v), h2 \in LeavingHalfedges(m, v) :
       h1 # h2 => EndOf(m, h1) # EndOf(m, h2)

EmptyCleanup == VertexNeighborhoodCleanup(<<>>, <<>>, <<>>, <<>>)

\* C8: make_vertex_neighborhood_manifold on a vertex without coincident
\* faces and without coincident outgoing halfedges returns four empty lists
\* and leaves the mesh exactly as it was (so a second call does the same)
C8_RepairIdempotent ==
  [][(last'.op = "make_vertex_neighborhood_manifold" /\ CoincidenceFree(mesh, last'.args[1]))
       => (Ok(mesh') /\ result' = EmptyCleanup /\ mesh' = mesh)]_vars


(* ---------------- edge collapse on the fixture ---------------- *)
Count(m) == <<Cardinality(DOMAIN m.vertices), Cardinality(DOMAIN m.halfedges),
              Cardinality(DOMAIN m.faces)>>

\* the complete fixture, before any collapse
FixtureBuilt == calls = 8 /\ mesh.nf = 8

\* the id the construction gives the edge the test collapses
FixtureEdgeId == 13

InteriorVertex(m, v) ==
  /\ Has(m.vertices, v)
  /\ m.outgoing_halfedges[v] # <<>>
  /\ \A h \in Range(m.outgoing_halfedges[v]) :
       /\ Has(m.halfedges, h) /\ ~is_boundary(m, h)
       /\ Has(m.halfedges, Twin(m, h)) /\ ~is_boundary(m, Twin(m, h))

\* two interior vertices whose one-rings have at least three vertices each
\* and share none
DisjointRings(m, v1, v2) ==
  /\ InteriorVertex(m, v1) /\ InteriorVertex(m, v2)
  /\ Len(RingVertices(m, v1)) >= 3 /\ Len(RingVertices(m, v2)) >= 3
  /\ Range(RingVertices(m, v1)) \cap Range(RingVertices(m, v2)) = {}

\* every vertex of the one-ring of v is interior, as in a star extended by
\* one step
RingInterior(m, v) == \A w \in Range(RingVertices(m, v)) : InteriorVertex(m, w)

\* the counts and the marks of a merge of v1 and v2 whose rings have n
\* vertices together; r is what the caller has after the call
MergeCounts(m, r, v1, v2, n) ==
  /\ Ok(m)
  /\ Len(r.result.removed_faces) = n
  /\ Len(r.result.removed_halfedges) = 2 * n
  /\ Len(r.result.removed_vertices) = 2 /\ Range(r.result.removed_vertices) = {v1, v2}
  /\ Len(r.result.added_faces) = n
  /\ Len(r.result.added_halfedges) = 2 * n
  /\ Range(r.result.added_halfedges) \subseteq r.marked_halfedges
  /\ r.marked_vertices = {}

\* the step is a merge of two interior vertices with disjoint one-rings
MergesDisjointRings ==
  /\ last'.op = "merge_vertices_one_rings"
  /\ DisjointRings(mesh, last'.args[1], last'.args[2])

\* the counts hold for the rings of the two tests: 6 and 6, and 6 and 5
\* vertices, every ring vertex interior
TestedMergeCounts ==
  [][(/\ MergesDisjointRings
      /\ RingInterior(mesh, last'.args[1]) /\ RingInterior(mesh, last'.args[2])
      /\ {Len(RingVertices(mesh, last'.args[1])),
          Len(RingVertices(mesh, last'.args[2]))} \in {{6}, {5, 6}})
     => MergeCounts(mesh', result', last'.args[1], last'.args[2],
                    Len(RingVertices(mesh, last'.args[1]))
                    + Len(RingVertices(mesh, last'.args[2])))]_vars

\* the counts for rings of any size whose vertices are all interior
InteriorRingMergeCounts ==
  [][(/\ MergesDisjointRings
      /\ RingInterior(mesh, last'.args[1]) /\ RingInterior(mesh, last'.args[2]))
     => MergeCounts(mesh', result', last'.args[1], last'.args[2],
                    Len(RingVertices(mesh, last'.args[1]))
                    + Len(RingVertices(mesh, last'.args[2])))]_vars

\* C10: merge_vertices_one_rings on two interior vertices whose one-rings
\* have n1 and n2 vertices (both at least 3) and share no vertex removes
\* n1+n2 faces, 2(n1+n2) halfedges and the two merged vertices, adds n1+n2
\* faces and 2(n1+n2) halfedges, puts every added halfedge into
\* marked_halfedges and puts nothing into marked_vertices
C10_MergeCounts ==
  [][MergesDisjointRings
     => MergeCounts(mesh', result', last'.args[1], last'.args[2],
                    Len(RingVertices(mesh, last'.args[1]))
                    + Len(RingVertices(mesh, last'.args[2])))]_vars

(* ---------------- vertex normals (lib.rs) ---------------- *)
\* the three vertices compute_vertex_normals reads off a face: the start and
\* the end of its halfedge and the end of the next one
NormalCorners(m, f) ==
  <<start_vertex(m, m.faces[f].halfedge), EndOf(m, m.faces[f].halfedge),
    EndOf(m, NextOf(m, m.faces[f].halfedge))>>

\* the indexings and the expect of the loop body succeed
NormalLookupsOk(m, f) ==
  /\ Has(m.halfedges, m.faces[f].halfedge)
  /\ NextOf(m, m.faces[f].halfedge) # None
  /\ Has(m.halfedges, NextOf(m, m.faces[f].halfedge))
  /\ \A v \in Range(NormalCorners(m, f)) : Has(m.positions, v)

\* compute_vertex_normals: an entry for every vertex of every face
compute_vertex_normals(m) ==
  IF \E f \in DOMAIN m.faces : ~NormalLookupsOk(m, f) THEN Panic(m)
  ELSE [m EXCEPT !.vertex_normals =
          [some |-> TRUE,
           keys |-> UNION {Range(NormalCorners(m, f)) : f \in DOMAIN m.faces}]]

(* ---------------- edge subdivision (ops/subdivide.rs) ---------------- *)
SubdivideNone(m) == [m |-> m, ret |-> None]

\* subdivide_face after its lookups: rewire the existing face, insert the new one
SplitFace(m, existing_halfedge_id, new_halfedge_id, center_v, face_id, next_he, last_he) ==
  Bind(insert_halfedge(m, center_v, EndOf(m, next_he)), LAMBDA a :
  Bind([a.m EXCEPT !.halfedges[existing_halfedge_id].next = a.ret,
                   !.halfedges[a.ret].next = last_he,
                   !.halfedges[a.ret].face = face_id], LAMBDA m1 :
  Bind(insert_halfedge(m1, EndOf(m1, next_he), center_v), LAMBDA b :
  Bind(insert_face(b.m, new_halfedge_id, next_he, b.ret), LAMBDA f :
  [m |-> [f.m EXCEPT !.halfedges[b.ret].twin = a.ret,
                     !.halfedges[a.ret].twin = b.ret,
                     !.halfedges[existing_halfedge_id].end_vertex = center_v],
   ret |-> a.ret]))))

\* subdivide_face: None without a face, Some(new_he) otherwise
subdivide_face(m, existing_halfedge_id, new_halfedge_id, center_v) ==
  IF ~Has(m.halfedges, existing_halfedge_id) THEN SubdivideNone(m)
  ELSE IF FaceOf(m, existing_halfedge_id) = None THEN SubdivideNone(m)
  ELSE IF ~Has(m.faces, FaceOf(m, existing_halfedge_id)) THEN SubdivideNone(m)
  ELSE Bind([m EXCEPT !.faces[FaceOf(m, existing_halfedge_id)].halfedge = existing_halfedge_id],
            LAMBDA m1 :
       IF NextOf(m1, existing_halfedge_id) = None THEN SubdivideNone(m1)
       ELSE IF ~Has(m1.halfedges, NextOf(m1, existing_halfedge_id)) THEN SubdivideNone(m1)
       ELSE IF prev(m1, existing_halfedge_id) = None THEN SubdivideNone(m1)
       ELSE SplitFace(m1, existing_halfedge_id, new_halfedge_id, center_v,
                      FaceOf(m1, existing_halfedge_id), NextOf(m1, existing_halfedge_id),
                      prev(m1, existing_halfedge_id)))

PushSome(s, x) == IF x = None THEN s ELSE Append(s, x)

\* the final re-twinning of subdivide_edge
SubdivideTwins(m, halfedge_id, twin_id, new_he, new_twin, new_halfedges) ==
  Bind([m EXCEPT !.halfedges[new_he].twin = twin_id], LAMBDA m1 :
  IF ~Has(m1.halfedges, twin_id) THEN [m |-> m1, ret |-> new_halfedges]
  ELSE [m |-> [m1 EXCEPT !.halfedges[twin_id].twin = new_he,
                         !.halfedges[halfedge_id].twin = new_twin,
                         !.halfedges[new_twin].twin = halfedge_id],
        ret |-> new_halfedges])

\* subdivide_edge from the insertion of new_he on
SubdivideHalves(m, halfedge_id, twin_id, start_v, end_v, center_v) ==
  Bind(insert_halfedge(m, center_v, end_v), LAMBDA a :
  Bind([a.m EXCEPT !.vertices[center_v].outgoing_halfedge = a.ret], LAMBDA m1 :
  Bind(subdivide_face(m1, halfedge_id, a.ret, center_v), LAMBDA f1 :
  Bind(insert_halfedge(f1.m, center_v, start_v), LAMBDA b :
  Bind(subdivide_face(b.m, twin_id, b.ret, center_v), LAMBDA f2 :
  SubdivideTwins(f2.m, halfedge_id, twin_id, a.ret, b.ret,
                 PushSome(PushSome(<<a.ret>>, f1.ret), f2.ret)))))))

\* the vertex_normals block of subdivide_edge: normals[center_v] = .. indexes
\* the map with the key of the vertex that was just inserted
SubdivideNormals(m, halfedge_id, twin_id, start_v, end_v, center_v) ==
  IF ~m.vertex_normals.some
    THEN SubdivideHalves(m, halfedge_id, twin_id, start_v, end_v, center_v)
  ELSE IF start_v \notin m.vertex_normals.keys \/ end_v \notin m.vertex_normals.keys
    THEN [m |-> m, ret |-> <<>>]
  ELSE IF center_v \notin m.vertex_normals.keys THEN [m |-> Panic(m), ret |-> <<>>]
  ELSE SubdivideHalves(m, halfedge_id, twin_id, start_v, end_v, center_v)

subdivide_edge(m, halfedge_id) ==
  IF ~Has(m.halfedges, halfedge_id) THEN [m |-> m, ret |-> <<>>]
  ELSE IF Twin(m, halfedge_id) = None THEN [m |-> m, ret |-> <<>>]
  ELSE IF start_vertex(m, halfedge_id) = None THEN [m |-> m, ret |-> <<>>]
  ELSE IF ~Has(m.positions, start_vertex(m, halfedge_id))
          \/ ~Has(m.positions, EndOf(m, halfedge_id))
    THEN [m |-> Panic(m), ret |-> <<>>]
  ELSE Bind(insert_vertex(m, Midpoint(m.positions[start_vertex(m, halfedge_id)],
                                      m.positions[EndOf(m, halfedge_id)])), LAMBDA c :
       SubdivideNormals(c.m, halfedge_id, Twin(m, halfedge_id),
                        start_vertex(m, halfedge_id), EndOf(m, halfedge_id), c.ret))

(* ---------------- the mesh under builders and edge edits ---------------- *)
MaxEditVertexIds == 5
MaxEditHalfedgeIds == 16
MaxEditFaceIds == 4
MaxEditCalls == 5

EditTriangle == <<(<<0, 0>>), (<<16, 0>>), (<<0, 16>>)>>
EditPositions == {<<16, 16>>}

FitsEdit(m) ==
  /\ m.nv <= MaxEditVertexIds
  /\ m.nh <= MaxEditHalfedgeIds
  /\ m.nf <= MaxEditFaceIds

DoEdit(r, op, args) ==
  /\ Ok(mesh)
  /\ calls < MaxEditCalls
  /\ FitsEdit(r.m)
  /\ mesh' = r.m
  /\ result' = r.ret
  /\ last' = Call(op, args)
  /\ calls' = calls + 1

EditSeed ==
  /\ DoEdit(create_face_from_positions(mesh, EditTriangle[1], EditTriangle[2], EditTriangle[3]),
            "create_face_from_positions", EditTriangle)

EditGrow ==
  \E h \in LiveH, p \in EditPositions :
    /\ DoEdit(create_face_from_halfedge_and_position(mesh, h, p),
              "create_face_from_halfedge_and_position", <<h, p>>)

ComputeVertexNormals ==
  /\ ~mesh.vertex_normals.some
  /\ DoEdit([m |-> compute_vertex_normals(mesh), ret |-> None], "compute_vertex_normals", <<>>)

SubdivideEdge ==
  \E h \in LiveH :
    /\ DoEdit(subdivide_edge(mesh, h), "subdivide_edge", <<h>>)

FlipEdge ==
  \E h \in LiveH :
    /\ DoEdit([m |-> flip_edge(mesh, h), ret |-> None], "flip_edge", <<h>>)

NextEdit ==
  \/ EditSeed
  \/ EditGrow
  \/ ComputeVertexNormals
  \/ SubdivideEdge
  \/ FlipEdge

SpecEdit == Init /\ [][NextEdit]_vars

(* ---------------- the mesh under builders and edge flips ---------------- *)
MaxFlipCalls == 4

DoFlip(r, op, args) ==
  /\ Ok(mesh)
  /\ calls < MaxFlipCalls
  /\ FitsEdit(r.m)
  /\ mesh' = r.m
  /\ result' = r.ret
  /\ last' = Call(op, args)
  /\ calls' = calls + 1

FlipSeed ==
  /\ DoFlip(create_face_from_positions(mesh, EditTriangle[1], EditTriangle[2], EditTriangle[3]),
            "create_face_from_positions", EditTriangle)

FlipGrow ==
  \E h \in LiveH, p \in EditPositions :
    /\ DoFlip(create_face_from_halfedge_and_position(mesh, h, p),
              "create_face_from_halfedge_and_position", <<h, p>>)

FlipClose ==
  \E h \in LiveH, v \in LiveV :
    /\ DoFlip(create_face_from_halfedge_and_vertex(mesh, h, v),
              "create_face_from_halfedge_and_vertex", <<h, v>>)

FlipFlip ==
  \E h \in LiveH :
    /\ DoFlip([m |-> flip_edge(mesh, h), ret |-> None], "flip_edge", <<h>>)

NextFlip ==
  \/ FlipSeed
  \/ FlipGrow
  \/ FlipClose
  \/ FlipFlip

SpecFlip == Init /\ [][NextFlip]_vars

(* ---------------- the mesh under the face builders of the tests (ops/create.rs) ---------------- *)
MaxCreateVertexIds == 7
MaxCreateHalfedgeIds == 16
MaxCreateFaceIds == 4
MaxCreateCalls == 4

CreateTriangles == {<<(<<0, 0>>), (<<1, 0>>), (<<0, 1>>)>>}
CreatePositions == {<<1, 1>>}

FitsCreate(m) ==
  /\ m.nv <= MaxCreateVertexIds
  /\ m.nh <= MaxCreateHalfedgeIds
  /\ m.nf <= MaxCreateFaceIds

DoCreate(r, op, args) ==
  /\ Ok(mesh)
  /\ calls < MaxCreateCalls
  /\ FitsCreate(r.m)
  /\ mesh' = r.m
  /\ result' = r.ret
  /\ last' = Call(op, args)
  /\ calls' = calls + 1

\* create_face of the tests, on any mesh
CreateFace ==
  \E t \in CreateTriangles :
    /\ DoCreate(create_face_from_positions(mesh, t[1], t[2], t[3]),
                "create_face_from_positions", t)

\* add_face_to_edge of the tests, on any halfedge
AddFaceToEdge ==
  \E h \in LiveH, p \in CreatePositions :
    /\ DoCreate(create_face_from_halfedge_and_position(mesh, h, p),
                "create_face_from_halfedge_and_position", <<h, p>>)

\* fill_face of the tests, on any two halfedges
FillFace ==
  \E h1 \in LiveH, h2 \in LiveH :
    /\ DoCreate(create_face_from_halfedges(mesh, h1, h2),
                "create_face_from_halfedges", <<h1, h2>>)

NextCreate ==
  \/ CreateFace
  \/ AddFaceToEdge
  \/ FillFace

SpecCreate == Init /\ [][NextCreate]_vars

(* ---------------- C11 ---------------- *)
\* each halfedge of the face ends where its next halfedge starts
FaceClosed(m, f) ==
  \A h \in {x \in DOMAIN m.halfedges : m.halfedges[x].face = f} :
    /\ NextOf(m, h) # None
    /\ start_vertex(m, NextOf(m, h)) = EndOf(m, h)

\* the halfedge has a face on both sides
InteriorEdge(m, h) == FaceOf(m, h) # None /\ FaceOf(m, Twin(m, h)) # None

\* m2 and ret are what subdividing the edge he of m is said to produce
SubdivideOutcome(m, m2, ret, he) ==
  /\ Ok(m2)
  /\ DOMAIN m.vertices \subseteq DOMAIN m2.vertices
  /\ DOMAIN m.halfedges \subseteq DOMAIN m2.halfedges
  /\ DOMAIN m.faces \subseteq DOMAIN m2.faces
  /\ Cardinality(DOMAIN m2.vertices) = Cardinality(DOMAIN m.vertices) + 1
  /\ Cardinality(DOMAIN m2.halfedges) = Cardinality(DOMAIN m.halfedges) + 6
  /\ Cardinality(DOMAIN m2.faces) = Cardinality(DOMAIN m.faces) + 2
  /\ Len(ret) = 3
  /\ Cardinality(Range(ret)) = 3
  /\ Range(ret) \subseteq (DOMAIN m2.halfedges) \ (DOMAIN m.halfedges)
  /\ start_vertex(m2, ret[1]) \in (DOMAIN m2.vertices) \ (DOMAIN m.vertices)
  /\ EndOf(m2, ret[1]) = EndOf(m, he)
  /\ start_vertex(m2, he) = start_vertex(m, he)
  /\ EndOf(m2, he) = start_vertex(m2, ret[1])
  /\ TwinInvolutive(m2)
  /\ \A f \in DOMAIN m2.faces : FaceIsTriangle(m2, f) /\ FaceClosed(m2, f)
  /\ \A v \in DOMAIN m2.vertices : AdjacencyExact(m2, v)

\* the step is a subdivide_edge call on an interior edge of a settled mesh
SubdividesInteriorEdge ==
  /\ last'.op = "subdivide_edge"
  /\ calls' = calls + 1
  /\ Settled(mesh)
  /\ InteriorEdge(mesh, last'.args[1])

\* the outcome holds while no vertex normals are stored
SubdivideWithoutNormals ==
  [][SubdividesInteriorEdge /\ ~mesh.vertex_normals.some
       => SubdivideOutcome(mesh, mesh', result', last'.args[1])]_vars

\* an interior edge of a settled mesh without normals has been subdivided
SubdividedWithoutNormals ==
  /\ last.op = "subdivide_edge"
  /\ ~mesh.vertex_normals.some
  /\ Ok(mesh)
  /\ Len(result) = 3

\* C11: subdivide_edge on an interior edge S->E of a settled mesh adds exactly
\* one vertex, six halfedges and two faces and returns exactly three halfedge
\* ids, the first running from the new midpoint to E; afterwards the given
\* halfedge runs from S to the midpoint, every halfedge has a twin whose twin
\* it is, every face is a closed 3-cycle, and every adjacency list holds
\* exactly the halfedges starting at its vertex.
C11_SubdivideEdge ==
  [][SubdividesInteriorEdge => SubdivideOutcome(mesh, mesh', result', last'.args[1])]_vars

(* ---------------- C12 ---------------- *)
\* the three halfedges of the face of h
FaceCycle(m, h) == {h, NextOf(m, h), prev(m, h)}

\* the third corner of the face of h
ThirdCorner(m, h) == EndOf(m, NextOf(m, h))

\* m2 is what flipping the interior edge he of m is said to produce
FlipOutcome(m, m2, he) ==
  /\ Ok(m2)
  /\ DOMAIN m2.halfedges = DOMAIN m.halfedges
  /\ DOMAIN m2.faces = DOMAIN m.faces
  /\ EndOf(m2, he) = ThirdCorner(m, he)
  /\ start_vertex(m2, he) = ThirdCorner(m, Twin(m, he))
  /\ Twin(m2, he) = Twin(m, he)
  /\ EndOf(m2, Twin(m, he)) = start_vertex(m2, he)
  /\ start_vertex(m2, Twin(m, he)) = EndOf(m2, he)
  /\ \A h \in DOMAIN m.halfedges :
       /\ m2.halfedges[h].face = m.halfedges[h].face
       /\ m2.halfedges[h].next = m.halfedges[h].next
  /\ \A f \in {FaceOf(m, he), FaceOf(m, Twin(m, he))} :
       FaceIsTriangle(m2, f) /\ FaceClosed(m2, f)
  /\ \A h \in FaceCycle(m, he) \cup FaceCycle(m, Twin(m, he)) :
       /\ Twin(m2, h) # None
       /\ Twin(m2, Twin(m2, h)) = h
       /\ Twin(m2, Twin(m2, Twin(m2, h))) = Twin(m2, h)

\* the step is a flip_edge call on an interior edge of a settled mesh
FlipsInteriorEdge ==
  /\ last'.op = "flip_edge"
  /\ calls' = calls + 1
  /\ Settled(mesh)
  /\ InteriorEdge(mesh, last'.args[1])

\* the two triangles of the edge form a quad: their third corners differ
FlipsQuad ==
  /\ FlipsInteriorEdge
  /\ ThirdCorner(mesh, last'.args[1]) # ThirdCorner(mesh, Twin(mesh, last'.args[1]))

\* C12 as stated: flip_edge on an interior edge A-B of a settled mesh, whose
\* two faces have the third corners C and D, leaves the given halfedge and
\* its twin connecting C and D, leaves every halfedge's face and next as they
\* were, leaves both faces closed triangles, and leaves the twin relation
\* involutive on the two flipped halfedges, the four other halfedges of the
\* two faces and the four outer halfedges across them.
C12_FlipEdge == [][FlipsInteriorEdge => FlipOutcome(mesh, mesh', last'.args[1])]_vars

\* C12 amended: the same outcome, for an interior edge whose two triangles
\* have different third corners C and D.
C12_FlipQuad == [][FlipsQuad => FlipOutcome(mesh, mesh', last'.args[1])]_vars

\* an interior edge between two triangles with different third corners has
\* been flipped: it left the adjacency list of its former start vertex and
\* its two faces are closed triangles
C12_Witness ==
  /\ last.op = "flip_edge"
  /\ Ok(mesh)
  /\ Has(mesh.halfedges, last.args[1])
  /\ InteriorEdge(mesh, last.args[1])
  /\ EndOf(mesh, last.args[1]) # start_vertex(mesh, last.args[1])
  /\ \E v \in LiveV : last.args[1] \in Range(ListOf(mesh, v)) /\ start_vertex(mesh, last.args[1]) # v
  /\ \A f \in {FaceOf(mesh, last.args[1]), FaceOf(mesh, Twin(mesh, last.args[1]))} :
       FaceIsTriangle(mesh, f) /\ FaceClosed(mesh, f)

(* ---------------- C13 ---------------- *)
\* test_halfedges and test_vertices of ops/create.rs: the traversals of the
\* face end after three halfedges and three vertices, and every vertex has
\* a canonical outgoing halfedge
TestedFace(m, f) ==
  /\ Has(m.faces, f)
  /\ ~FaceHalfedgesHangs(m, f)
  /\ Len(FaceHalfedges(m, f)) = 3
  /\ Len(FaceVertexSeq(m, f)) = 3
  /\ \A v \in Range(FaceVertexSeq(m, f)) :
       Has(m.vertices, v) /\ m.vertices[v].outgoing_halfedge # None

\* m2 has nv more vertices and positions, nh more halfedges and nf more
\* faces than m, and lost none
Adds(m, m2, nv, nh, nf) ==
  /\ Ok(m2)
  /\ DOMAIN m.vertices \subseteq DOMAIN m2.vertices
  /\ DOMAIN m.positions \subseteq DOMAIN m2.positions
  /\ DOMAIN m.halfedges \subseteq DOMAIN m2.halfedges
  /\ DOMAIN m.faces \subseteq DOMAIN m2.faces
  /\ Cardinality(DOMAIN m2.vertices) = Cardinality(DOMAIN m.vertices) + nv
  /\ Cardinality(DOMAIN m2.positions) = Cardinality(DOMAIN m.positions) + nv
  /\ Cardinality(DOMAIN m2.halfedges) = Cardinality(DOMAIN m.halfedges) + nh
  /\ Cardinality(DOMAIN m2.faces) = Cardinality(DOMAIN m.faces) + nf

\* the returned halfedge ids are n different ids, all new in m2
ReturnsNew(m, m2, ids, n) ==
  /\ Len(ids) = n
  /\ Cardinality(Range(ids)) = n
  /\ Range(ids) \subseteq (DOMAIN m2.halfedges) \ (DOMAIN m.halfedges)

CreateFaceOutcome(m, m2, ret) ==
  /\ Adds(m, m2, 3, 6, 1)
  /\ ReturnsNew(m, m2, ret.halfedge_ids, 6)
  /\ ret.face_id \in (DOMAIN m2.faces) \ (DOMAIN m.faces)
  /\ TestedFace(m2, ret.face_id)
  /\ Cardinality(Range(FaceVertexSeq(m2, ret.face_id))) = 3
  /\ m = EmptyMesh => Count(m2) = <<3, 6, 1>> /\ Cardinality(DOMAIN m2.positions) = 3

\* C13: create_face_from_positions, called on any mesh, adds exactly 3
\* vertices, 3 positions, 6 halfedges and 1 face (3/3/6/1 from the empty
\* mesh) and returns the six new halfedge ids; the traversal of the new
\* face's halfedges yields 3 elements, that of its vertices 3 distinct ids,
\* and each of the three vertices has a canonical outgoing halfedge.
C13_CreateFaceFromPositions ==
  [][last'.op = "create_face_from_positions" /\ calls' = calls + 1
       => CreateFaceOutcome(mesh, mesh', result')]_vars

\* a face was created from positions on a mesh that already had faces
C13_Witness ==
  /\ last.op = "create_face_from_positions"
  /\ Cardinality(LiveF) >= 2
  /\ Has(mesh.faces, result.face_id)
  /\ TestedFace(mesh, result.face_id)

(* ---------------- C14 ---------------- *)
\* the edge of h joins two vertices and has a face on exactly one side
OneSidedEdge(m, h) ==
  /\ Has(m.halfedges, h)
  /\ Has(m.halfedges, Twin(m, h))
  /\ Twin(m, Twin(m, h)) = h
  /\ start_vertex(m, h) # EndOf(m, h)
  /\ (FaceOf(m, h) = None) # (FaceOf(m, Twin(m, h)) = None)

AttachOutcome(m, m2, ret) ==
  /\ ret.some
  /\ Adds(m, m2, 1, 4, 1)
  /\ ReturnsNew(m, m2, ret.halfedge_ids, 4)
  /\ ret.face_id \in (DOMAIN m2.faces) \ (DOMAIN m.faces)
  /\ TestedFace(m2, ret.face_id)
  /\ (Count(m) = <<3, 6, 1>> /\ Cardinality(DOMAIN m.positions) = 3)
       => (Count(m2) = <<4, 10, 2>> /\ Cardinality(DOMAIN m2.positions) = 4)

\* the step attaches a face to a one-sided edge of a settled mesh
AttachesToOneSidedEdge ==
  /\ last'.op = "create_face_from_halfedge_and_position"
  /\ calls' = calls + 1
  /\ Settled(mesh)
  /\ OneSidedEdge(mesh, last'.args[1])

\* the same call on the twin of the halfedge gives the same mesh and result
SameOnTwin(m, m2, ret, h, p) ==
  /\ create_face_from_halfedge_and_position(m, Twin(m, h), p).m = m2
  /\ create_face_from_halfedge_and_position(m, Twin(m, h), p).ret = ret

FanCenters(m) ==
  {v \in DOMAIN m.vertices : \A f \in DOMAIN m.faces : v \in Range(FaceVertexSeq(m, f))}

\* init_fill_face of the tests: the settled mesh of one created face and two
\* faces attached to boundary edges, three faces around one vertex
IsFan(m) ==
  /\ Settled(m)
  /\ Count(m) = <<5, 14, 3>>
  /\ Cardinality(DOMAIN m.positions) = 5
  /\ FanCenters(m) # {}

\* the boundary halfedges at the centre of the fan: its two free edges
FreeBoundary(m) ==
  {h \in DOMAIN m.halfedges :
     /\ is_boundary(m, h)
     /\ (start_vertex(m, h) \in FanCenters(m) \/ EndOf(m, h) \in FanCenters(m))}

\* the step bridges the two free edges of the fan, both passed as interior
\* halfedges or both as boundary halfedges
FillsFan ==
  /\ last'.op = "create_face_from_halfedges"
  /\ calls' = calls + 1
  /\ IsFan(mesh)
  /\ Cardinality(FreeBoundary(mesh)) = 2
  /\ {boundary_he(mesh, last'.args[1]), boundary_he(mesh, last'.args[2])} = FreeBoundary(mesh)
  /\ is_boundary(mesh, last'.args[1]) = is_boundary(mesh, last'.args[2])

FillOutcome(m, m2, ret) ==
  /\ ret.some
  /\ Adds(m, m2, 0, 2, 1)
  /\ ReturnsNew(m, m2, ret.halfedge_ids, 2)
  /\ ret.face_id \in (DOMAIN m2.faces) \ (DOMAIN m.faces)
  /\ Count(m2) = <<5, 16, 4>>
  /\ Cardinality(DOMAIN m2.positions) = 5

\* the same call on the twins of both halfedges gives the same mesh and result
SameOnTwins(m, m2, ret, h1, h2) ==
  /\ create_face_from_halfedges(m, Twin(m, h1), Twin(m, h2)).m = m2
  /\ create_face_from_halfedges(m, Twin(m, h1), Twin(m, h2)).ret = ret

\* C15: on the 3-face fan built by one create_face_from_positions and two
\* boundary attachments, create_face_from_halfedges on the fan's two free
\* edges returns a face and adds exactly 2 halfedges, 1 face and no vertex
\* (5 vertices, 5 positions, 16 halfedges, 4 faces in total), identically
\* for the interior halfedges and for the boundary twins of the two edges.
C15_FillFan ==
  [][FillsFan
       => /\ FillOutcome(mesh, mesh', result')
          /\ SameOnTwins(mesh, mesh', result', last'.args[1], last'.args[2])]_vars

\* the fan was closed through the interior halfedges of its free edges
C15_Witness ==
  /\ last.op = "create_face_from_halfedges"
  /\ result.some
  /\ Count(mesh) = <<5, 16, 4>>
  /\ FanCenters(mesh) # {}
  /\ TestedFace(mesh, result.face_id)
  /\ FaceOf(mesh, last.args[1]) \notin {None, result.face_id}
  /\ FaceOf(mesh, last.args[2]) \notin {None, result.face_id}
  /\ Settled(mesh)

(* ---------------- the indexed constructor (lib.rs) ---------------- *)
MaxIndexedVertices == 4
MaxIndexedTriangles == 2

\* graph.insert_halfedge(end) as indexed_triangles uses it: a halfedge that
\* points at `end`; the constructor fills in next, face and twin itself
InsertHalfedgeTo(m, end) ==
  [m |-> [m EXCEPT !.nh = @ + 1,
                   !.halfedges = Put(@, m.nh + 1, [end_vertex |-> end, face |-> None,
                                                   twin |-> None, next |-> None])],
   ret |-> m.nh + 1]

\* graph.insert_face(he) as indexed_triangles uses it
InsertFaceOf(m, he) ==
  [m |-> [m EXCEPT !.nf = @ + 1,
                   !.faces = Put(@, m.nf + 1, [halfedge |-> he, index |-> m.next_index]),
                   !.index_to_face_id = Put(@, m.next_index, m.nf + 1),
                   !.next_index = @ + 1],
   ret |-> m.nf + 1]

\* he.next and he.face are set; the twin is set only if the opposite
\* direction is already in the map, else the halfedge is entered in the map
IndexedLink(g, he, nx, f, s, e) ==
  Bind([g.m EXCEPT !.halfedges[he].next = nx, !.halfedges[he].face = f], LAMBDA m1 :
    IF Has(g.map, <<e, s>>)
    THEN [m |-> [m1 EXCEPT !.halfedges[he].twin = g.map[<<e, s>>],
                           !.halfedges[g.map[<<e, s>>]].twin = he],
          map |-> g.map]
    ELSE [m |-> m1, map |-> Put(g.map, <<s, e>>, he)])

\* one chunk of three indices, already resolved to the vertex ids a, b, c
IndexedChunk(g, a, b, c) ==
  IF a = b \/ b = c \/ c = a THEN g
  ELSE
  Bind(InsertHalfedgeTo(g.m, b), LAMBDA ha :
  Bind(InsertHalfedgeTo(ha.m, c), LAMBDA hb :
  Bind(InsertHalfedgeTo(hb.m, a), LAMBDA hc :
  Bind(InsertFaceOf(hc.m, ha.ret), LAMBDA f :
  Bind(IndexedLink([m |-> f.m,
                    map |-> Put(Put(g.map, <<b, c>>, hb.ret), <<c, a>>, hc.ret)],
                   ha.ret, hb.ret, f.ret, a, b), LAMBDA g1 :
  Bind(IndexedLink(g1, hb.ret, hc.ret, f.ret, b, c), LAMBDA g2 :
  Bind(IndexedLink(g2, hc.ret, ha.ret, f.ret, c, a), LAMBDA g3 :
    [g3 EXCEPT !.m.vertices[a].outgoing_halfedge = ha.ret,
               !.m.vertices[b].outgoing_halfedge = hb.ret,
               !.m.vertices[c].outgoing_halfedge = hc.ret])))))))

RECURSIVE IndexedChunks(_, _, _)
IndexedChunks(g, face_indices, i) ==
  IF i + 2 > Len(face_indices) THEN g
  ELSE IndexedChunks(IndexedChunk(g, face_indices[i] + 1, face_indices[i + 1] + 1,
                                  face_indices[i + 2] + 1),
                     face_indices, i + 3)

RECURSIVE InsertVertices(_, _, _)
InsertVertices(m, vertex_positions, i) ==
  IF i > Len(vertex_positions) THEN m
  ELSE InsertVertices(insert_vertex(m, vertex_positions[i]).m, vertex_positions, i + 1)

\* MeshGraph::indexed_triangles; the k-th position gets the vertex id k
indexed_triangles(vertex_positions, face_indices) ==
  IndexedChunks([m |-> InsertVertices(EmptyMesh, vertex_positions, 1), map |-> <<>>],
                face_indices, 1).m

\* the inputs: up to MaxIndexedVertices positions, up to MaxIndexedTriangles
\* index triples with every index in range
IndexedPositions == UNION {[1..n -> PositionInputs] : n \in 3..MaxIndexedVertices}

IndexLists(n) == UNION {[1..(3 * k) -> 0..(n - 1)] : k \in 0..MaxIndexedTriangles}

IndexedTriangles ==
  \E ps \in IndexedPositions :
    \E is \in IndexLists(Len(ps)) :
      /\ last.op = "new"
      /\ mesh' = indexed_triangles(ps, is)
      /\ result' = None
      /\ last' = Call("indexed_triangles", <<ps, is>>)
      /\ calls' = calls + 1

SpecIndexed == Init /\ [][IndexedTriangles]_vars

(* ---------------- C16 ---------------- *)
\* every live halfedge has a twin
TwinsPresent(m) == \A h \in DOMAIN m.halfedges : m.halfedges[h].twin # None

\* C16: after indexed_triangles returns, for any position list and index
\* list, every halfedge of the mesh has a present twin, the halfedges of
\* edges used by only one triangle of the input included.
C16_IndexedTwins == last.op = "indexed_triangles" => TwinsPresent(mesh)

(* ---------------- boundary preference (ops/cleanup/edge_boundary.rs) ---------------- *)
\* Vertex::is_boundary: the canonical outgoing halfedge is live and has no face
VertexIsBoundary(m, v) ==
  /\ m.vertices[v].outgoing_halfedge # None
  /\ Has(m.halfedges, m.vertices[v].outgoing_halfedge)
  /\ is_boundary(m, m.vertices[v].outgoing_halfedge)

\* the first live boundary halfedge the traversal of v yields becomes the
\* canonical one; a traversal that yields none and never ends hangs
make_outgoing_halfedge_boundary_if_possible(m, vertex_id) ==
  IF ~Has(m.vertices, vertex_id) THEN m
  ELSE Bind(First(VertexOutgoing(m, vertex_id),
                  LAMBDA h : Has(m.halfedges, h) /\ is_boundary(m, h)), LAMBDA b :
         IF b # None THEN [m EXCEPT !.vertices[vertex_id].outgoing_halfedge = b]
         ELSE IF VertexOutgoingHangs(m, vertex_id) THEN Hang(m)
         ELSE m)

MakeOutgoingHalfedgeBoundaryIfPossible ==
  \E v \in LiveV :
    /\ DoEdit([m |-> make_outgoing_halfedge_boundary_if_possible(mesh, v), ret |-> None],
              "make_outgoing_halfedge_boundary_if_possible", <<v>>)

NextBoundary ==
  \/ EditSeed
  \/ EditGrow
  \/ MakeOutgoingHalfedgeBoundaryIfPossible

SpecBoundary == Init /\ [][NextBoundary]_vars

(* ---------------- C17 ---------------- *)
\* some live halfedge starting at v has no face
HasBoundaryOutgoing(m, v) == \E h \in StartingAt(m, v) : is_boundary(m, h)

\* C17: after make_outgoing_halfedge_boundary_if_possible(v), if any live
\* halfedge starting at v is a boundary halfedge, the canonical outgoing
\* halfedge of v is a boundary halfedge and Vertex::is_boundary(v) is true,
\* whichever outgoing halfedge was canonical before the call.
C17_BoundaryPreferred ==
  (/\ last.op = "make_outgoing_halfedge_boundary_if_possible"
   /\ HasBoundaryOutgoing(mesh, last.args[1]))
    => VertexIsBoundary(mesh, last.args[1])

\* the call does prefer the boundary halfedge when the traversal from the
\* canonical halfedge reaches one
BoundaryPreferredWhenReached ==
  (/\ last.op = "make_outgoing_halfedge_boundary_if_possible"
   /\ \E h \in Range(VertexOutgoing(mesh, last.args[1])) :
        Has(mesh.halfedges, h) /\ is_boundary(mesh, h))
    => VertexIsBoundary(mesh, last.args[1])

(* ---------------- the circular iterator on its own (iter.rs) ---------------- *)
MaxIterHalfedges == 3

\* a step function: each halfedge id steps to a halfedge id or to None
IterSteps == [1..MaxIterHalfedges -> 0..MaxIterHalfedges]

InitIter ==
  /\ mesh = EmptyMesh
  /\ result = None
  /\ \E step \in IterSteps, start \in 0..MaxIterHalfedges :
       last = Call("CircularHalfedgesIterator::new", <<step, start>>)
  /\ calls = 0

\* collect() of the iterator: the elements it yields, and whether it ever ends
Collect ==
  /\ last.op = "CircularHalfedgesIterator::new"
  /\ result' = [items |-> CircularHalfedgesIterator(last.args[1], last.args[2]),
                hangs |-> IterHangs(last.args[1], last.args[2])]
  /\ last' = Call("collect", last.args)
  /\ calls' = calls + 1
  /\ UNCHANGED mesh

NextIter ==
  \/ Collect

SpecIter == InitIter /\ [][NextIter]_vars

(* ---------------- C18 ---------------- *)
NoRepeats(s) == \A i, j \in DOMAIN s : i # j => s[i] # s[j]

\* the step after the last element of s is absent or repeats an element of s
EndsAtRepeatOrAbsent(step, s) ==
  s # <<>> => \/ StepOf(step, s[Len(s)]) = None
              \/ StepOf(step, s[Len(s)]) \in Range(s)

\* each element after the first is the step of the one before it
FollowsStep(step, s) == \A i \in 2..Len(s) : s[i] = StepOf(step, s[i - 1])

\* C18: for every start halfedge and step function the sequence the
\* CircularHalfedgesIterator produces is finite: it yields the start first,
\* yields no halfedge twice, and ends at the first step that is absent or
\* repeats an earlier element, also when the chain from the start enters a
\* cycle that does not contain the start.
C18_IteratorFinite ==
  last.op = "collect" =>
    /\ ~result.hangs
    /\ last.args[2] # None => /\ result.items # <<>>
                              /\ result.items[1] = last.args[2]
    /\ last.args[2] = None => result.items = <<>>
    /\ NoRepeats(result.items)
    /\ FollowsStep(last.args[1], result.items)
    /\ EndsAtRepeatOrAbsent(last.args[1], result.items)

\* the chain from the start comes back to the start or ends: the case the
\* iterator handles
ReturnsOrEnds(step, start) ==
  \/ start = None
  \/ \E n \in 1..MaxIterHalfedges + 1 :
       \E s \in [1..n -> 0..MaxIterHalfedges] :
         /\ s[1] = start
         /\ FollowsStep(step, s)
         /\ \A i \in 1..n : s[i] # None
         /\ StepOf(step, s[n]) \in {None, start}

IteratorFiniteWhenReturning ==
  (last.op = "collect" /\ ReturnsOrEnds(last.args[1], last.args[2])) =>
    /\ ~result.hangs
    /\ NoRepeats(result.items)
    /\ EndsAtRepeatOrAbsent(last.args[1], result.items)

(* ---------------- C19 ---------------- *)
\* the faces the step created
NewFaces == DOMAIN mesh'.faces \ DOMAIN mesh.faces

\* live faces have pairwise distinct indices, each below next_index, and
\* index_to_face_id maps the index of each to its id
FaceIndicesOk(m) ==
  /\ \A f, g \in DOMAIN m.faces : f # g => m.faces[f].index # m.faces[g].index
  /\ \A f \in DOMAIN m.faces :
       /\ m.faces[f].index < m.next_index
       /\ Has(m.index_to_face_id, m.faces[f].index)
       /\ m.index_to_face_id[m.faces[f].index] = f

\* C19: across any sequence of face insertions and deletions every newly
\* created face receives an index strictly greater than every index assigned
\* before it (an index is below next_index when it is assigned, and
\* next_index never decreases, so the index of a deleted face is not used
\* again), live faces have pairwise distinct indices, and index_to_face_id
\* maps the index of every live face to that face's id.
C19_FaceIndices ==
  [][/\ mesh'.next_index >= mesh.next_index
     /\ \A f \in NewFaces : mesh'.faces[f].index >= mesh.next_index
     /\ \A f \in DOMAIN mesh'.faces \cap DOMAIN mesh.faces :
          mesh'.faces[f].index = mesh.faces[f].index
     /\ FaceIndicesOk(mesh')]_vars

\* a face was created after a face with a smaller index had been deleted
C19_Witness ==
  /\ Ok(mesh)
  /\ last.op # "delete_face"
  /\ \E f \in DOMAIN mesh.faces :
       /\ f = mesh.nf
       /\ \E i \in 0..mesh.faces[f].index - 1 :
            /\ Has(mesh.index_to_face_id, i)
            /\ ~Has(mesh.faces, mesh.index_to_face_id[i])

(* ---------------- selections (selection.rs) ---------------- *)
MaxSelectCalls == 3
MaxSelected == 1

Selection(vs, hs, fs) == [vertices |-> vs, halfedges |-> hs, faces |-> fs]

\* the second loop of resolve_to_vertices: Face::vertices of each selected face
ResolveFaces(m, fs) ==
  UNION {Range(FaceVertexSeq(m, f)) : f \in fs}

\* the first loop: the start vertex, if the twin gives one, and the end vertex
ResolveHalfedges(m, hs) ==
  ({start_vertex(m, h) : h \in hs} \ {None}) \cup {m.halfedges[h].end_vertex : h \in hs}

\* indexing the arena with an id that is not live panics; Face::vertices of a
\* face whose next-chain never returns to its first halfedge never ends
resolve_to_vertices(S, m) ==
  IF ~(S.halfedges \subseteq DOMAIN m.halfedges) THEN [m |-> Panic(m), ret |-> {}]
  ELSE IF ~(S.faces \subseteq DOMAIN m.faces) THEN [m |-> Panic(m), ret |-> {}]
  ELSE IF \E f \in S.faces : FaceHalfedgesHangs(m, f) THEN [m |-> Hang(m), ret |-> {}]
  ELSE [m |-> m,
        ret |-> S.vertices \cup ResolveHalfedges(m, S.halfedges) \cup ResolveFaces(m, S.faces)]

DoSelect(r, op, args) ==
  /\ Ok(mesh)
  /\ calls < MaxSelectCalls
  /\ FitsEdit(r.m)
  /\ mesh' = r.m
  /\ result' = r.ret
  /\ last' = Call(op, args)
  /\ calls' = calls + 1

SelectSeed ==
  /\ DoSelect(create_face_from_positions(mesh, EditTriangle[1], EditTriangle[2], EditTriangle[3]),
              "create_face_from_positions", EditTriangle)

SelectGrow ==
  \E h \in LiveH, p \in EditPositions :
    /\ DoSelect(create_face_from_halfedge_and_position(mesh, h, p),
                "create_face_from_halfedge_and_position", <<h, p>>)

SelectClose ==
  \E h \in LiveH, v \in LiveV :
    /\ DoSelect(create_face_from_halfedge_and_vertex(mesh, h, v),
                "create_face_from_halfedge_and_vertex", <<h, v>>)

\* selections of live ids, at most MaxSelected of each kind
AtMost(S, n) == {T \in SUBSET S : Cardinality(T) <= n}

ResolveToVertices ==
  \E vs \in AtMost(LiveV, MaxSelected), hs \in AtMost(LiveH, MaxSelected), fs \in AtMost(LiveF, MaxSelected) :
    /\ DoSelect(resolve_to_vertices(Selection(vs, hs, fs), mesh),
                "resolve_to_vertices", <<Selection(vs, hs, fs)>>)

NextSelect ==
  \/ SelectSeed
  \/ SelectGrow
  \/ SelectClose
  \/ ResolveToVertices

SpecSelect == Init /\ [][NextSelect]_vars

(* ---------------- C20 ---------------- *)
\* the vertices whose adjacency list holds h: where h starts
ListedStarts(m, h) ==
  {v \in DOMAIN m.outgoing_halfedges : h \in Range(m.outgoing_halfedges[v])}

\* the endpoints of the selected halfedges and the corners of the selected faces
SelectedVertices(m, S) ==
  S.vertices
    \cup UNION {ListedStarts(m, h) \cup {m.halfedges[h].end_vertex} : h \in S.halfedges}
    \cup UNION {FaceVertices(m, f) : f \in S.faces}

\* C20: for any selection S whose ids are all live, resolve_to_vertices(S, M)
\* returns, and its result contains every vertex of S.vertices, both endpoints
\* (start and end vertex) of every halfedge of S.halfedges and all three
\* vertices of every face of S.faces.
C20_ResolveToVertices ==
  last.op = "resolve_to_vertices"
    => /\ Ok(mesh)
       /\ SelectedVertices(mesh, last.args[1]) \subseteq result

\* on a settled mesh the result does contain them
ResolveToVerticesSettled ==
  (last.op = "resolve_to_vertices" /\ Settled(mesh))
    => SelectedVertices(mesh, last.args[1]) \subseteq result

(* ---------------- selections resolved to halfedges, stale ids (selection.rs) ---------------- *)
\* resolve_to_halfedges: the selected halfedges, Face::halfedges of each
\* selected face, then Vertex::outgoing_halfedges (the traversal from the
\* canonical halfedge) of each selected vertex; indexing an arena with an id
\* that is not live panics
resolve_to_halfedges(S, m) ==
  IF ~(S.faces \subseteq DOMAIN m.faces) THEN [m |-> Panic(m), ret |-> {}]
  ELSE IF \E f \in S.faces : FaceHalfedgesHangs(m, f) THEN [m |-> Hang(m), ret |-> {}]
  ELSE IF ~(S.vertices \subseteq DOMAIN m.vertices) THEN [m |-> Panic(m), ret |-> {}]
  ELSE IF \E v \in S.vertices : VertexOutgoingHangs(m, v) THEN [m |-> Hang(m), ret |-> {}]
  ELSE [m |-> m,
        ret |-> S.halfedges
                  \cup UNION {Range(FaceHalfedges(m, f)) : f \in S.faces}
                  \cup UNION {Range(VertexOutgoing(m, v)) : v \in S.vertices}]

SelectDelete ==
  \E f \in LiveF, rev \in BOOLEAN :
    /\ DoSelect(delete_face(mesh, f, rev), "delete_face", <<f>>)

\* selections of ids ever handed out, live or deleted since
ResolveAnyToVertices ==
  \E vs \in AtMost(1..mesh.nv, MaxSelected), hs \in AtMost(1..mesh.nh, MaxSelected), fs \in AtMost(1..mesh.nf, MaxSelected) :
    /\ DoSelect(resolve_to_vertices(Selection(vs, hs, fs), mesh),
                "resolve_to_vertices", <<Selection(vs, hs, fs)>>)

ResolveToHalfedges ==
  \E vs \in AtMost(1..mesh.nv, MaxSelected), hs \in AtMost(1..mesh.nh, MaxSelected), fs \in AtMost(1..mesh.nf, MaxSelected) :
    /\ DoSelect(resolve_to_halfedges(Selection(vs, hs, fs), mesh),
                "resolve_to_halfedges", <<Selection(vs, hs, fs)>>)

NextResolve ==
  \/ SelectSeed
  \/ SelectGrow
  \/ SelectDelete
  \/ ResolveAnyToVertices
  \/ ResolveToHalfedges

SpecResolve == Init /\ [][NextResolve]_vars

(* ---------------- C21 ---------------- *)
\* before a resolve call returns or fails the mesh is the one it was called on
AllLive(m, S) ==
  /\ S.vertices \subseteq DOMAIN m.vertices
  /\ S.halfedges \subseteq DOMAIN m.halfedges
  /\ S.faces \subseteq DOMAIN m.faces

\* the halfedges of the selected faces and those starting at the selected vertices
SelectedHalfedges(m, S) ==
  S.halfedges
    \cup {h \in DOMAIN m.halfedges : m.halfedges[h].face \in S.faces}
    \cup UNION {StartingAt(m, v) : v \in S.vertices}

\* C21: for any selection S whose ids are all live, resolve_to_halfedges(S, M)
\* contains every halfedge of S.halfedges, all three halfedges of every face
\* of S.faces and every live halfedge whose start vertex is a vertex of
\* S.vertices, for interior and for boundary vertices alike.
C21_ResolveToHalfedges ==
  (last.op = "resolve_to_halfedges" /\ AllLive(mesh, last.args[1]))
    => /\ Ok(mesh)
       /\ SelectedHalfedges(mesh, last.args[1]) \subseteq result

\* the selected halfedges and the halfedges of the selected faces are in the
\* result on every settled mesh
ResolveToHalfedgesWithoutVertices ==
  (/\ last.op = "resolve_to_halfedges"
   /\ AllLive(mesh, last.args[1])
   /\ Settled(mesh))
    => SelectedHalfedges(mesh, [last.args[1] EXCEPT !.vertices = {}]) \subseteq result

(* ---------------- C22 ---------------- *)
\* the selection without the ids that are no longer live
LivePart(m, S) ==
  Selection(S.vertices \cap DOMAIN m.vertices,
            S.halfedges \cap DOMAIN m.halfedges,
            S.faces \cap DOMAIN m.faces)

\* the mesh the call was made on: a failed call only marks the status
Before(m) == [m EXCEPT !.status = "ok"]

\* C22: resolving a selection that holds ids of vertices, halfedges or faces
\* that have since been deleted does not fail: resolve_to_vertices and
\* resolve_to_halfedges return normally and contribute nothing for each
\* stale id (the result is that of the selection without its stale ids).
C22_StaleIds ==
  /\ (last.op = "resolve_to_vertices" /\ ~AllLive(Before(mesh), last.args[1]))
       => /\ Ok(mesh)
          /\ result = resolve_to_vertices(LivePart(mesh, last.args[1]), mesh).ret
  /\ (last.op = "resolve_to_halfedges" /\ ~AllLive(Before(mesh), last.args[1]))
       => /\ Ok(mesh)
          /\ result = resolve_to_halfedges(LivePart(mesh, last.args[1]), mesh).ret

(* ---------------- compute_pairings on its own (ops/merge.rs) ---------------- *)
MaxPairStart == 1
MaxPairCount == 5

\* a ConnectPair whose sides have c1 and c2 vertices to pair; a closed pair
\* carries one more index at each end of both ranges
PairOf(s1, c1, s2, c2, closed) ==
  [closed |-> closed,
   ranges |-> IF closed THEN <<(<<s1, s1 + c1 + 1>>), (<<s2, s2 + c2 + 1>>)>>
              ELSE <<(<<s1, s1 + c1 - 1>>), (<<s2, s2 + c2 - 1>>)>>]

InitPairings ==
  /\ mesh = EmptyMesh
  /\ result = None
  /\ \E s1, s2 \in 0..MaxPairStart, c1, c2 \in 1..MaxPairCount, closed \in BOOLEAN :
       last = Call("ConnectPair", <<PairOf(s1, c1, s2, c2, closed)>>)
  /\ calls = 0

ComputePairings ==
  /\ last.op = "ConnectPair"
  /\ result' = compute_pairings(last.args[1])
  /\ last' = Call("compute_pairings", last.args)
  /\ calls' = calls + 1
  /\ UNCHANGED mesh

NextPairings ==
  \/ ComputePairings

SpecPairings == InitPairings /\ [][NextPairings]_vars

(* ---------------- C23 ---------------- *)
\* the side with fewer vertices to pair (the first on a tie), and the other
SingleSide(pair) ==
  IF RangeCount(PairedRanges(pair)[1]) > RangeCount(PairedRanges(pair)[2]) THEN 2 ELSE 1

\* the other_range values are consecutive, do not overlap and cover `range`
CoversOther(pairings, range) ==
  /\ pairings # <<>>
  /\ pairings[1].other_range[1] = range[1]
  /\ pairings[Len(pairings)].other_range[2] = range[2]
  /\ \A i \in DOMAIN pairings : pairings[i].other_range[1] <= pairings[i].other_range[2]
  /\ \A i \in 1..Len(pairings) - 1 :
       pairings[i + 1].other_range[1] = pairings[i].other_range[2] + 1

\* the single indices are distinct and cover `range`
CoversSingle(pairings, range) ==
  /\ \A i, j \in DOMAIN pairings :
       i # j => pairings[i].single_idx_in_range # pairings[j].single_idx_in_range
  /\ {pairings[i].single_idx_in_range : i \in DOMAIN pairings} = range[1]..range[2]

\* C23: for every ConnectPair whose two sides have m and n vertices to pair
\* (1 <= m <= n) compute_pairings returns pairings whose other_range values
\* are consecutive, non-overlapping and together cover every index of the
\* longer side's range, and whose single indices are distinct and cover every
\* index of the shorter side's range.
C23_PairingsCover ==
  last.op = "compute_pairings" =>
    /\ CoversOther(result, PairedRanges(last.args[1])[3 - SingleSide(last.args[1])])
    /\ CoversSingle(result, PairedRanges(last.args[1])[SingleSide(last.args[1])])

\* what the pairings do satisfy: consecutive, non-overlapping runs from the
\* start of the longer side, and single indices counted up from the start of
\* the shorter side
PairingsOrdered ==
  last.op = "compute_pairings" =>
    /\ \A i \in DOMAIN result :
         /\ result[i].single_range_idx = SingleSide(last.args[1])
         /\ result[i].single_idx_in_range
              = PairedRanges(last.args[1])[SingleSide(last.args[1])][1] + i - 1
         /\ result[i].other_range[1] <= result[i].other_range[2]
         /\ result[i].other_range[2] <= PairedRanges(last.args[1])[3 - SingleSide(last.args[1])][2]
    /\ \A i \in 1..Len(result) - 1 : result[i + 1].other_range[1] = result[i].other_range[2] + 1
    /\ result # <<>> =>
         result[1].other_range[1] = PairedRanges(last.args[1])[3 - SingleSide(last.args[1])][1]

\* sides of equal size are paired one to one
PairingsCoverEqualSides ==
  (/\ last.op = "compute_pairings"
   /\ RangeCount(PairedRanges(last.args[1])[1]) = RangeCount(PairedRanges(last.args[1])[2]))
    => /\ CoversOther(result, PairedRanges(last.args[1])[2])
       /\ CoversSingle(result, PairedRanges(last.args[1])[1])

(* ---------------- plane-slice polygons (plane_slice/polygon.rs) ---------------- *)
\* a Polygon2 is its deque of points; a terminal is "Start" or "End"
terminal(vertices, t) == IF t = "Start" THEN vertices[1] ELSE vertices[Len(vertices)]

extend_by_line(vertices, t, other_line_end) ==
  IF t = "Start" THEN <<other_line_end>> \o vertices ELSE Append(vertices, other_line_end)

\* for comparison: a merge that never reverses the other polygon
MergeWithoutReversing(vertices, my_terminal, other, other_terminal) ==
  IF my_terminal = "Start" THEN other \o vertices ELSE vertices \o other

merge_polygon(vertices, my_terminal, other, other_terminal) ==
  IF my_terminal = "Start"
  THEN (IF other_terminal = "Start" THEN Reverse(other) ELSE other) \o vertices
  ELSE vertices \o (IF other_terminal = "Start" THEN other ELSE Reverse(other))

\* front and back closer than 1e-6 squared: the same point, for points on the
\* integer grid
is_closed(vertices) == vertices # <<>> /\ vertices[1] = vertices[Len(vertices)]

close(vertices) == IF is_closed(vertices) THEN vertices ELSE Append(vertices, vertices[1])

(* ---------------- the segment-stitching hash grid (plane_slice/hash_grid.rs) ---------------- *)
\* ceil of the square root
CeilSqrt(x) == IF ISqrt(x) * ISqrt(x) = x THEN ISqrt(x) ELSE ISqrt(x) + 1

\* the cell factor of one axis, grid_size / width, as <<numerator, denominator>>;
\* a width of 0 counts as 0.0001, with one cell of that size
CellFac(width) == IF width = 0 THEN <<10000, 1>> ELSE <<CeilSqrt(width), width>>

\* HashGrid::new; np counts the polygon ids handed out
HashGridNew(min_bounds, max_bounds) ==
  [map |-> <<>>, min_bounds |-> min_bounds,
   cell_fac |-> <<CellFac(max_bounds[1] - min_bounds[1]), CellFac(max_bounds[2] - min_bounds[2])>>,
   polygons |-> <<>>, polygon_cells |-> <<>>, np |-> 0, status |-> "ok"]

\* floor of a * b / c for c > 0
FloorMulDiv(a, b, c) ==
  IF a >= 0 THEN (a * b) \div c ELSE -(((-a) * b + c - 1) \div c)

vec2_to_grid(g, point) ==
  <<FloorMulDiv(point[1] - g.min_bounds[1], g.cell_fac[1][1], g.cell_fac[1][2]),
    FloorMulDiv(point[2] - g.min_bounds[2], g.cell_fac[2][1], g.cell_fac[2][2])>>

RemoveAt(s, i) == SubSeq(s, 1, i - 1) \o SubSeq(s, i + 1, Len(s))

\* the entry of the cell that is taken: removed from the cell, and the cell
\* forgotten for the polygon unless its other terminal is registered there too
TakeAt(g, key, i) ==
  Bind(g.map[key][i], LAMBDA taken :
  Bind(RemoveAt(g.map[key], i), LAMBDA e :
    [g |-> [g EXCEPT !.map[key] = e,
                     !.polygon_cells[taken[2]] =
                        IF \E j \in DOMAIN e : e[j][2] = taken[2] THEN @ ELSE @ \ {key}],
     ret |-> taken]))

\* the first entry of the point's cell whose terminal point is the point;
\* indexing the polygons with an id that was removed panics
try_take_connecting_polygon(g, point) ==
  Bind(vec2_to_grid(g, point), LAMBDA key :
    IF ~Has(g.map, key) THEN [g |-> g, ret |-> <<>>]
    ELSE Bind(FirstIndex(g.map[key], LAMBDA en :
                ~Has(g.polygons, en[2]) \/ terminal(g.polygons[en[2]], en[1]) = point),
              LAMBDA i :
         IF i = 0 THEN [g |-> g, ret |-> <<>>]
         ELSE IF ~Has(g.polygons, g.map[key][i][2]) THEN [g |-> Panic(g), ret |-> <<>>]
         ELSE TakeAt(g, key, i)))

remove_polygon_from_cell(g, polygon_id, cell) ==
  IF ~Has(g.map, cell) THEN g
  ELSE [g EXCEPT !.map[cell] = SelectSeq(@, LAMBDA en : en[2] # polygon_id)]

RECURSIVE RemoveFromCells(_, _, _)
RemoveFromCells(g, polygon_id, cells) ==
  IF cells = {} THEN g
  ELSE Bind(CHOOSE c \in cells : TRUE, LAMBDA c :
         RemoveFromCells(remove_polygon_from_cell(g, polygon_id, c), polygon_id, cells \ {c}))

insert_polygon_by_terminal(g, t, polygon_id, terminal_point) ==
  Bind(vec2_to_grid(g, terminal_point), LAMBDA key :
    IF ~Has(g.polygons, polygon_id) THEN Panic(g)
    ELSE [g EXCEPT !.map = Put(@, key, Append(IF Has(@, key) THEN @[key] ELSE <<>>,
                                              <<t, polygon_id>>)),
                   !.polygon_cells = Put(@, polygon_id,
                                         (IF Has(@, polygon_id) THEN @[polygon_id] ELSE {})
                                           \cup {key})])

extend_polygon(g, polygon_id, t, new_point) ==
  insert_polygon_by_terminal(
    [g EXCEPT !.polygons[polygon_id] = extend_by_line(@, t, new_point)],
    t, polygon_id, new_point)

\* the two polygons become one under the id of the first; both lose their
\* cell registrations and the merged polygon registers its two terminals
MergeInto(g, polygon_id1, terminal1, polygon2, terminal2) ==
  Bind([RemoveFromCells(g, polygon_id1, g.polygon_cells[polygon_id1])
          EXCEPT !.polygons[polygon_id1] = merge_polygon(@, terminal1, polygon2, terminal2)],
       LAMBDA h :
    insert_polygon_by_terminal(
      insert_polygon_by_terminal(h, "Start", polygon_id1, terminal(h.polygons[polygon_id1], "Start")),
      "End", polygon_id1, terminal(h.polygons[polygon_id1], "End")))

merge_polygons(g, polygon_id1, terminal1, polygon_id2, terminal2) ==
  IF polygon_id1 = polygon_id2
  THEN [g EXCEPT !.polygons[polygon_id1] = close(@)]
  ELSE IF ~Has(g.polygon_cells, polygon_id2) \/ ~Has(g.polygons, polygon_id2) THEN Panic(g)
  ELSE IF ~Has(g.polygon_cells, polygon_id1) \/ ~Has(g.polygons, polygon_id1) THEN Panic(g)
  ELSE MergeInto([RemoveFromCells(g, polygon_id2, g.polygon_cells[polygon_id2])
                    EXCEPT !.polygon_cells = Del(@, polygon_id2),
                           !.polygons = Del(@, polygon_id2)],
                 polygon_id1, terminal1, g.polygons[polygon_id2], terminal2)

NewPolygon(g, point1, point2) ==
  insert_polygon_by_terminal(
    insert_polygon_by_terminal(
      [g EXCEPT !.np = @ + 1, !.polygons = Put(@, g.np + 1, <<point1, point2>>)],
      "Start", g.np + 1, point1),
    "End", g.np + 1, point2)

insert_line(g, point1, point2) ==
  Bind(try_take_connecting_polygon(g, point1), LAMBDA t1 :
    IF ~Ok(t1.g) THEN t1.g
    ELSE Bind(try_take_connecting_polygon(t1.g, point2), LAMBDA t2 :
      IF ~Ok(t2.g) THEN t2.g
      ELSE IF t1.ret # <<>> /\ t2.ret # <<>>
        THEN merge_polygons(t2.g, t1.ret[2], t1.ret[1], t2.ret[2], t2.ret[1])
      ELSE IF t1.ret # <<>> THEN extend_polygon(t2.g, t1.ret[2], t1.ret[1], point2)
      ELSE IF t2.ret # <<>> THEN extend_polygon(t2.g, t2.ret[2], t2.ret[1], point1)
      ELSE NewPolygon(t2.g, point1, point2)))

\* into_polygons: the polygons, in no particular order
into_polygons(g) == {g.polygons[id] : id \in DOMAIN g.polygons}

(* ---------------- a closed loop of segments stitched by the grid ---------------- *)
MaxLoopPoints == 4

\* the corners of a convex polygon; the first n of them are a simple loop
LoopCorners == <<(<<2, 0>>), (<<6, 0>>), (<<8, 3>>), (<<6, 6>>), (<<2, 6>>), (<<0, 3>>)>>

\* bounds of the grid: the box of the corners (cells of about three units), a
\* large box (one cell for nearly all points) and an empty box (one cell per point)
GridBounds == {<<(<<0, 0>>), (<<8, 6>>)>>, <<(<<0, 0>>), (<<64, 64>>)>>, <<(<<2, 0>>), (<<2, 0>>)>>}

\* segment k of the loop of n points, with its endpoints swapped if flip
LoopSegment(n, k, flip) ==
  IF flip THEN <<LoopCorners[(k % n) + 1], LoopCorners[k]>>
  ELSE <<LoopCorners[k], LoopCorners[(k % n) + 1]>>

Orders(n) == {p \in [1..n -> 1..n] : \A i, j \in 1..n : i # j => p[i] # p[j]}

\* the segments of the loop in any order, each with either endpoint order,
\* to be inserted into an empty grid with any of the bounds
InitGrid ==
  /\ mesh = EmptyMesh
  /\ calls = 0
  /\ \E n \in 3..MaxLoopPoints, b \in GridBounds :
       /\ result = HashGridNew(b[1], b[2])
       /\ \E order \in Orders(n), flips \in [1..n -> BOOLEAN] :
            last = Call("insert_line",
                        <<[k \in 1..n |-> LoopSegment(n, order[k], flips[k])]>>)

\* the next segment is inserted
InsertLine ==
  /\ last.op = "insert_line"
  /\ Ok(result)
  /\ calls < Len(last.args[1])
  /\ result' = insert_line(result, last.args[1][calls + 1][1], last.args[1][calls + 1][2])
  /\ calls' = calls + 1
  /\ UNCHANGED <<mesh, last>>

NextGrid ==
  \/ InsertLine

SpecGrid == InitGrid /\ [][NextGrid]_vars

(* ---------------- C24 ---------------- *)
\* s lists the first n corners in cyclic order, in either direction, from
\* any corner
CyclicOrder(s, n) ==
  \E start \in 1..n, dir \in {1, n - 1} :
    \A i \in 1..Len(s) : s[i] = LoopCorners[((start - 1 + (i - 1) * dir) % n) + 1]

\* all segments of the loop have been inserted
LoopInserted == last.op = "insert_line" /\ calls = Len(last.args[1])

\* C24: inserting the n segments of a simple closed loop of n >= 3 pairwise
\* distinct points into an empty HashGrid with insert_line, in any order of
\* the segments and with either endpoint order for each, yields exactly one
\* polygon; it is closed (its last vertex equals its first), has n + 1
\* vertices and lists the loop's points in cyclic order.
C24_LoopStitched ==
  LoopInserted =>
    /\ Ok(result)
    /\ Cardinality(DOMAIN result.polygons) = 1
    /\ \A poly \in into_polygons(result) :
         /\ is_closed(poly)
         /\ Len(poly) = Len(last.args[1]) + 1
         /\ CyclicOrder(poly, Len(last.args[1]))

\* a loop of four segments: the first two share no point and start two
\* polylines, the third joins the starts of the two, the fourth closes the loop
C24_Witness ==
  /\ LoopInserted
  /\ Len(last.args[1]) = 4
  /\ {last.args[1][1][1], last.args[1][1][2]} \cap {last.args[1][2][1], last.args[1][2][2]} = {}
  /\ last.args[1][3][1] = last.args[1][1][1]
  /\ last.args[1][3][2] = last.args[1][2][1]
  /\ \A poly \in into_polygons(result) : is_closed(poly) /\ Len(poly) = 5

(* ---------------- import of a tetrahedralization (integrations/delaunay.rs) ---------------- *)
Sub3(p, q) == <<p[1] - q[1], p[2] - q[2], p[3] - q[3]>>

Cross3(p, q) ==
  <<p[2] * q[3] - p[3] * q[2], p[3] * q[1] - p[1] * q[3], p[1] * q[2] - p[2] * q[1]>>

Dot3(p, q) == p[1] * q[1] + p[2] * q[2] + p[3] * q[3]

\* four times the centroid of a cell (the sum of its positions): the centroid
\* is the sum times 0.25, exact for exactly representable coordinates
CentroidTimes4(vertex_positions, vertex_ids) ==
  <<vertex_positions[vertex_ids[1] + 1][1] + vertex_positions[vertex_ids[2] + 1][1]
      + vertex_positions[vertex_ids[3] + 1][1] + vertex_positions[vertex_ids[4] + 1][1],
    vertex_positions[vertex_ids[1] + 1][2] + vertex_positions[vertex_ids[2] + 1][2]
      + vertex_positions[vertex_ids[3] + 1][2] + vertex_positions[vertex_ids[4] + 1][2],
    vertex_positions[vertex_ids[1] + 1][3] + vertex_positions[vertex_ids[2] + 1][3]
      + vertex_positions[vertex_ids[3] + 1][3] + vertex_positions[vertex_ids[4] + 1][3]>>

Times4(p) == <<4 * p[1], 4 * p[2], 4 * p[3]>>

\* the four faces of a cell, from its sorted vertex indices
CellFaces(vertex_ids) ==
  {<<vertex_ids[1], vertex_ids[2], vertex_ids[3]>>, <<vertex_ids[1], vertex_ids[2], vertex_ids[4]>>,
   <<vertex_ids[1], vertex_ids[3], vertex_ids[4]>>, <<vertex_ids[2], vertex_ids[3], vertex_ids[4]>>}

\* face_count: the number of cells that have the face
FaceCount(cells, face) == Cardinality({cell \in cells : face \in CellFaces(SetToAsc(cell))})

\* the emitted triple of a face that one cell has: norm = (c - a) x (c - b),
\* flipped if norm . (centroid - a) < 0
OrientFace(vertex_positions, face, cell) ==
  Bind(Cross3(Sub3(vertex_positions[face[3] + 1], vertex_positions[face[1] + 1]),
              Sub3(vertex_positions[face[3] + 1], vertex_positions[face[2] + 1])), LAMBDA norm :
    IF Dot3(norm, Sub3(CentroidTimes4(vertex_positions, SetToAsc(cell)),
                       Times4(vertex_positions[face[1] + 1]))) < 0
    THEN <<face[3], face[2], face[1]>>
    ELSE face)

\* the faces that exactly one cell has, each with its cell
BoundaryFaces(cells) ==
  {fc \in UNION {{<<face, cell>> : face \in CellFaces(SetToAsc(cell))} : cell \in cells} :
     FaceCount(cells, fc[1]) = 1}

\* a number for a face, to list the faces in an order
FaceCode(face) == (face[1] * 8 + face[2]) * 8 + face[3]

\* the index list: the emitted triples of the boundary faces, in the iteration
\* order of the hash map (either order of the face codes), flattened
RECURSIVE DelaunayIndices(_, _, _)
DelaunayIndices(vertex_positions, faces, codes) ==
  IF codes = <<>> THEN <<>>
  ELSE Bind(CHOOSE fc \in faces : FaceCode(fc[1]) = codes[1], LAMBDA fc :
         OrientFace(vertex_positions, fc[1], fc[2])
           \o DelaunayIndices(vertex_positions, faces, Tail(codes)))

\* From<Tds>: a tds is its vertex positions, in the order of vertices(), and
\* its cells as sets of four vertex indices
FromTds(vertex_positions, cells, rev) ==
  Bind(DelaunayIndices(vertex_positions, BoundaryFaces(cells),
                       HashOrder({FaceCode(fc[1]) : fc \in BoundaryFaces(cells)}, rev)),
       LAMBDA indices :
    [m |-> indexed_triangles(vertex_positions, indices), ret |-> indices])

MaxCoordinate == 1

CubePoints == (0..MaxCoordinate) \X (0..MaxCoordinate) \X (0..MaxCoordinate)

\* six times the signed volume of the tetrahedron a, b, c, d
Volume6(a, b, c, d) == Dot3(Cross3(Sub3(b, a), Sub3(c, a)), Sub3(d, a))

\* one tetrahedron, or two that share a face and lie on its two sides
Tetrahedralizations ==
  {<<ps, {{0, 1, 2, 3}}>> :
     ps \in {q \in [1..4 -> CubePoints] : Volume6(q[1], q[2], q[3], q[4]) # 0}}
  \cup
  {<<ps, {{0, 1, 2, 3}, {0, 1, 2, 4}}>> :
     ps \in {q \in [1..5 -> CubePoints] :
               Volume6(q[1], q[2], q[3], q[4]) * Volume6(q[1], q[2], q[3], q[5]) < 0}}

InitTds ==
  /\ mesh = EmptyMesh
  /\ result = None
  /\ calls = 0
  /\ \E tds \in Tetrahedralizations : last = Call("Tds", tds)

MeshGraphFromTds ==
  \E rev \in BOOLEAN :
    /\ last.op = "Tds"
    /\ mesh' = FromTds(last.args[1], last.args[2], rev).m
    /\ result' = FromTds(last.args[1], last.args[2], rev).ret
    /\ last' = Call("from", last.args)
    /\ calls' = calls + 1

NextTds ==
  \/ MeshGraphFromTds

SpecTds == InitTds /\ [][NextTds]_vars

(* ---------------- C25 ---------------- *)
\* the emitted index triples
EmittedTriples(indices) ==
  {<<indices[3 * k + 1], indices[3 * k + 2], indices[3 * k + 3]>> : k \in 0..(Len(indices) \div 3 - 1)}

\* the geometric normal (b - a) x (c - a) of the triple points away from the
\* centroid of the cell
PointsOutward(vertex_positions, t, cell) ==
  Dot3(Cross3(Sub3(vertex_positions[t[2] + 1], vertex_positions[t[1] + 1]),
              Sub3(vertex_positions[t[3] + 1], vertex_positions[t[1] + 1])),
       Sub3(CentroidTimes4(vertex_positions, SetToAsc(cell)),
            Times4(vertex_positions[t[1] + 1]))) < 0

\* C25: for every triangle that occurs in exactly one tetrahedron of the
\* input, the index triple (a, b, c) emitted by the import is ordered so that
\* its geometric normal (b - a) x (c - a) points away from the centroid of
\* that tetrahedron.
C25_FacesOutward ==
  last.op = "from" =>
    \A fc \in BoundaryFaces(last.args[2]) :
      \E t \in EmittedTriples(result) :
        /\ {t[1], t[2], t[3]} = {fc[1][1], fc[1][2], fc[1][3]}
        /\ PointsOutward(last.args[1], t, fc[2])

\* every boundary face is emitted once, and with its normal towards the
\* centroid of its tetrahedron
FacesInward ==
  last.op = "from" =>
    /\ Len(result) = 3 * Cardinality(BoundaryFaces(last.args[2]))
    /\ \A fc \in BoundaryFaces(last.args[2]) :
         \E t \in EmittedTriples(result) :
           /\ {t[1], t[2], t[3]} = {fc[1][1], fc[1][2], fc[1][3]}
           /\ ~PointsOutward(last.args[1], t, fc[2])

(* ---------------- C26 ---------------- *)
\* the four vertices of the two triangles of the edge he
QuadVertices(m, he) ==
  {start_vertex(m, he), EndOf(m, he), ThirdCorner(m, he), ThirdCorner(m, Twin(m, he))}

\* C26: after flip_edge on an interior edge of a settled mesh, for each of
\* the four vertices of the two triangles the outgoing_halfedges list
\* contains exactly the live halfedges whose start vertex is that vertex,
\* each exactly once.
C26_FlipAdjacency ==
  [][FlipsInteriorEdge =>
       \A v \in QuadVertices(mesh, last'.args[1]) : AdjacencyExact(mesh', v)]_vars

\* the same for an edge whose two triangles have different third corners
FlipQuadAdjacency ==
  [][FlipsQuad =>
       \A v \in QuadVertices(mesh, last'.args[1]) : AdjacencyExact(mesh', v)]_vars

(* ---------------- C27 ---------------- *)
\* collapse_edge is called on an interior edge of a settled mesh
CollapsesInteriorEdge ==
  /\ last'.op = "collapse_edge"
  /\ calls' = calls + 1
  /\ Settled(mesh)
  /\ InteriorEdge(mesh, last'.args[1])

\* no list of a live vertex names a halfedge that is not live
NoRemovedListed(m) ==
  \A v \in DOMAIN m.vertices :
    Has(m.outgoing_halfedges, v) => Range(m.outgoing_halfedges[v]) \subseteq DOMAIN m.halfedges

\* C27: after collapse_edge on an interior edge of a settled mesh every
\* surviving vertex's outgoing_halfedges list contains exactly the live
\* halfedges starting at that vertex: no removed halfedge id remains in any
\* list, and the former outgoing halfedges of the removed end vertex are
\* listed under the surviving start vertex.
C27_CollapseAdjacency ==
  [][CollapsesInteriorEdge =>
       /\ Ok(mesh')
       /\ NoRemovedListed(mesh')
       /\ \A v \in DOMAIN mesh'.vertices : AdjacencyExact(mesh', v)]_vars


(* ---------------- C28 ---------------- *)
\* the step is a subdivide_edge call on an edge of a settled mesh that has a
\* face on exactly one side
SubdividesOneSidedEdge ==
  /\ last'.op = "subdivide_edge"
  /\ calls' = calls + 1
  /\ Settled(mesh)
  /\ OneSidedEdge(mesh, last'.args[1])

\* every listed halfedge is live and starts at the vertex that lists it
ListedStartThere(m) ==
  \A v \in DOMAIN m.outgoing_halfedges :
    \A h \in Range(m.outgoing_halfedges[v]) :
      Has(m.halfedges, h) /\ start_vertex(m, h) = v

\* both halfedges of the edge of he end at the one vertex the call added
EndAtMidpoint(m, m2, he) ==
  /\ Cardinality((DOMAIN m2.vertices) \ (DOMAIN m.vertices)) = 1
  /\ EndOf(m2, he) \in (DOMAIN m2.vertices) \ (DOMAIN m.vertices)
  /\ EndOf(m2, Twin(m, he)) = EndOf(m2, he)

OneSidedOutcome(m, m2, ret, he) ==
  /\ Ok(m2)
  /\ Len(ret) = 2
  /\ EndAtMidpoint(m, m2, he)
  /\ ListedStartThere(m2)
  /\ \A f \in DOMAIN m2.faces : FaceClosed(m2, f)

\* C28: subdivide_edge on an edge of a settled mesh with a face on only one
\* side returns exactly 2 halfedge ids; afterwards both original halfedges of
\* the edge end at the new midpoint vertex, every halfedge listed in a vertex's
\* outgoing_halfedges list starts at that vertex, and in every face each
\* halfedge's end vertex is the start vertex of its next.
C28_SubdivideOneSided ==
  [][SubdividesOneSidedEdge => OneSidedOutcome(mesh, mesh', result', last'.args[1])]_vars

\* the part of C28 that the code keeps when no vertex normals are stored: two
\* ids are returned and the halfedge on the side of the face ends at the
\* midpoint
OneSidedFaceSideSplit ==
  [][SubdividesOneSidedEdge /\ ~mesh.vertex_normals.some
       => /\ Ok(mesh')
          /\ Len(result') = 2
          /\ \E h \in {last'.args[1], Twin(mesh, last'.args[1])} :
               /\ FaceOf(mesh, h) # None
               /\ EndOf(mesh', h) \in (DOMAIN mesh'.vertices) \ (DOMAIN mesh.vertices)]_vars

\* the boundary halfedge of a subdivided one-sided edge keeps its old end
OneSidedBoundaryKeepsEnd ==
  [][SubdividesOneSidedEdge /\ ~mesh.vertex_normals.some
       => \E h \in {last'.args[1], Twin(mesh, last'.args[1])} :
            /\ FaceOf(mesh, h) = None
            /\ EndOf(mesh', h) = EndOf(mesh, h)]_vars


(* ---------------- C29 ---------------- *)
\* the step is a create_face_from_halfedges call that returns a face
BridgeReturnsFace ==
  /\ last'.op = "create_face_from_halfedges"
  /\ calls' = calls + 1
  /\ result'.some

\* the halfedges that name face f as theirs
NamingFace(m, f) == {h \in DOMAIN m.halfedges : m.halfedges[h].face = f}

\* face f of m2 is a closed triangle over halfedges that had no face in m
ClosedTriangle(m, m2, f) ==
  /\ Has(m2.faces, f)
  /\ Cardinality(NamingFace(m2, f)) = 3
  /\ FaceClosed(m2, f)
  /\ Cardinality({EndOf(m2, h) : h \in NamingFace(m2, f)}) = 3
  /\ \A h \in NamingFace(m2, f) : Has(m.halfedges, h) => FaceOf(m, h) = None

\* C29: whenever create_face_from_halfedges returns a face, the three
\* halfedges of the new face form a closed triangle: each halfedge's end
\* vertex is the start vertex of its next, the face has exactly 3 distinct
\* vertices, and none of the three halfedges belonged to a face before the call.
C29_BridgeClosedTriangle ==
  [][BridgeReturnsFace => ClosedTriangle(mesh, mesh', result'.face_id)]_vars

\* the two boundary halfedges the call bridges share no endpoint
NoEndpointShared(m, h1, h2) ==
  {start_vertex(m, boundary_he(m, h1)), EndOf(m, boundary_he(m, h1))}
    \cap {start_vertex(m, boundary_he(m, h2)), EndOf(m, boundary_he(m, h2))} = {}

\* bridging two halfedges of a settled mesh that share no endpoint never
\* gives a closed face
DisjointBridgeNeverClosed ==
  [][BridgeReturnsFace /\ Settled(mesh) /\ NoEndpointShared(mesh, last'.args[1], last'.args[2])
       => ~FaceClosed(mesh', result'.face_id)]_vars


(* ---------------- C30 ---------------- *)
\* C30: make_vertex_neighborhood_manifold never panics, whatever the vertex
\* and the mesh: no failed assertion, no unwrap of an absent value, no
\* out-of-range removal
C30_RepairNeverPanics ==
  last.op = "make_vertex_neighborhood_manifold" => mesh.status # "panic"


(* ---------------- the passes of a neighbourhood repair ---------------- *)
\* one pass of the loop of make_vertex_neighborhood_manifold: the vertex it
\* worked on, the duplicate it inserted (or None), and whether its three
\* removal lists were empty
Pass(vertex_id, step) ==
  [vertex |-> vertex_id, inserted |-> step.ret,
   quiet |-> step.a.rv = <<>> /\ step.a.rh = <<>> /\ step.a.rf = <<>>]

\* the passes of the loop, in order; what the loop does to the mesh and to
\* its worklist is ManifoldLoop
RECURSIVE PassesOfLoop(_, _, _, _, _, _)
PassesOfLoop(m, worklist, res, rev, debug, fuel) ==
  Bind(make_vertex_neighborhood_manifold_step(m, worklist[1], rev, debug), LAMBDA step :
    IF ~Ok(step.a.m) THEN <<Pass(worklist[1], step)>>
    ELSE Bind(AfterStep(step, worklist, res), LAMBDA n :
      IF n.quiet /\ n.worklist = <<>> THEN <<Pass(worklist[1], step)>>
      ELSE IF fuel = 0 \/ (~n.quiet /\ step.ret = None /\ step.a.m = m)
      THEN <<Pass(worklist[1], step)>>
      ELSE <<Pass(worklist[1], step)>>
             \o PassesOfLoop(step.a.m, n.worklist, n.res, rev, debug, fuel - 1)))

RepairPasses(m, vertex_id, rev, debug) ==
  PassesOfLoop(m, <<vertex_id>>, VertexNeighborhoodCleanup(<<>>, <<>>, <<>>, <<vertex_id>>),
               rev, debug, 2 * (m.nv + m.nh + m.nf) + 2)

(* ---------------- C31 ---------------- *)
PassedAfter(passes, i, v) == \E j \in (i + 1)..Len(passes) : passes[j].vertex = v

SplitsRevisited(passes) ==
  \A i \in 1..Len(passes) :
    passes[i].inserted # None
      => PassedAfter(passes, i, passes[i].vertex) /\ PassedAfter(passes, i, passes[i].inserted)

DuplicatesRevisited(passes) ==
  \A i \in 1..Len(passes) :
    passes[i].inserted # None => PassedAfter(passes, i, passes[i].inserted)

LoudSplitsRevisited(passes) ==
  \A i \in 1..Len(passes) :
    passes[i].inserted # None /\ ~passes[i].quiet
      => PassedAfter(passes, i, passes[i].vertex) /\ PassedAfter(passes, i, passes[i].inserted)

\* a call of the repair returns
FanRepairReturns ==
  /\ last'.op = "make_vertex_neighborhood_manifold"
  /\ calls' = calls + 1
  /\ Ok(mesh')

FanPasses == RepairPasses(mesh, last'.args[1], last'.args[2], last'.args[3])

\* C31: whenever a repair pass of make_vertex_neighborhood_manifold splits a
\* vertex, both the original vertex and the new duplicate receive at least
\* one further repair pass before the call returns
C31_SplitsRevisited ==
  [][FanRepairReturns => \A passes \in {FanPasses} : SplitsRevisited(passes)]_vars

\* the duplicate always receives a further pass
DuplicateRevisited ==
  [][FanRepairReturns => \A passes \in {FanPasses} : DuplicatesRevisited(passes)]_vars

\* a split by a pass that removes something (the degenerate-face step) is
\* followed by a further pass on both vertices
FaceSplitsRevisited ==
  [][FanRepairReturns => \A passes \in {FanPasses} : LoudSplitsRevisited(passes)]_vars

(* ---------------- closed fans under neighbourhood repair ---------------- *)
MaxFanFaces == 6
MaxFanShared == 2
MaxFanRepairs == 1

\* the centre of a fan and the positions of its ring vertices; ring vertices
\* may lie on one another
FanCenter == <<0, 0, 16>>
FanPoints ==
  <<(<<16, 0, 0>>), (<<8, 14, 0>>), (<<-8, 14, 0>>), (<<-16, 0, 0>>), (<<-8, -14, 0>>),
    (<<8, -14, 0>>), (<<0, 0, -16>>)>>

\* which ring vertices share a position, with the positions numbered in the
\* order of their first use; at most MaxFanShared ring vertices lie on an
\* earlier one
FanCodes(n) ==
  {c \in [1..n -> 1..n] :
     /\ c[1] = 1
     /\ \A i \in 2..n : \E j \in 1..(i - 1) : c[i] <= c[j] + 1
     /\ Cardinality({c[i] : i \in 1..n}) >= n - MaxFanShared}

\* a fan of nine triangles whose ring runs twice over the same three
\* positions and returns a third time to one of them: a folded surface
FoldedCode == <<1, 2, 3, 1, 2, 3, 4, 5, 3>>
FoldedRing == [i \in 1..Len(FoldedCode) |-> FanPoints[FoldedCode[i]]]

FanRings ==
  UNION {{[i \in 1..n |-> FanPoints[c[i]]] : c \in FanCodes(n)} : n \in 4..MaxFanFaces}
    \cup {FoldedRing}

\* a closed fan of triangles around a new centre vertex, built as the tests
\* of the merge build their stars, without outer corners
FanWith ==
  \E ring \in FanRings :
    /\ last.op = "new"
    /\ Bind(extend_with(mesh, <<FanCenter>> \o ring, StarMatrices[1], StarScalar, 0), LAMBDA r :
         DoFixture([m |-> r.m, ret |-> r.ret], "extend_with", <<ring>>))

\* the fixture of test_remove_degenerate_edges: every halfedge that ends at
\* `gone` is made to end at `keep`, the outgoing halfedges of `gone` are
\* pushed to the list of `keep`, and `gone` is deleted
PinchVertices(m, keep, gone) ==
  delete_only_vertex(
    [m EXCEPT !.halfedges = [h \in DOMAIN @ |->
                               IF @[h].end_vertex = gone THEN [@[h] EXCEPT !.end_vertex = keep]
                               ELSE @[h]],
              !.outgoing_halfedges[keep] = @ \o m.outgoing_halfedges[gone]],
    gone)

\* two ring vertices at the same position that are not neighbours on the
\* ring become one vertex; the fields are written directly, no call is made
FanPinch ==
  \E keep \in LiveV, gone \in LiveV :
    /\ last.op = "extend_with"
    /\ 1 < keep /\ keep + 1 < gone /\ gone - keep < mesh.nv - 2
    /\ mesh.positions[keep] = mesh.positions[gone]
    /\ mesh' = PinchVertices(mesh, keep, gone)
    /\ result' = None
    /\ last' = Call("pinch", <<keep, gone>>)
    /\ calls' = calls

FanRepair ==
  \E v \in LiveV, rev \in BOOLEAN, debug \in BOOLEAN :
    /\ calls - 1 < MaxFanRepairs
    /\ DoFixture(make_vertex_neighborhood_manifold(mesh, v, rev, debug),
                 "make_vertex_neighborhood_manifold", <<v, rev, debug>>)

NextFan ==
  \/ FanWith
  \/ FanPinch
  \/ FanRepair

SpecFan == Init /\ [][NextFan]_vars

(* ---------------- C32 ---------------- *)
Splits(passes) == {i \in 1..Len(passes) : passes[i].inserted # None}

\* a flat list of (original, duplicate) pairs holding the pair of every split
PairsOfSplits(s, passes) ==
  /\ Len(s) % 2 = 0
  /\ \A i \in Splits(passes) :
       \E k \in 1..(Len(s) \div 2) :
         s[2 * k - 1] = passes[i].vertex /\ s[2 * k] = passes[i].inserted

\* C32: the split_vertices list returned by make_vertex_neighborhood_manifold
\* is empty when no split occurred and otherwise a flat list of (original,
\* duplicate) pairs: of even length, with every vertex that was split
\* immediately followed by the duplicate made from it, also after more than
\* one split in one call
C32_SplitPairs ==
  [][FanRepairReturns
       => \A passes \in {FanPasses} :
            IF Splits(passes) = {} THEN result'.split_vertices = <<>>
            ELSE PairsOfSplits(result'.split_vertices, passes)]_vars

\* after no split the list is empty, and after exactly one split it is the
\* pair of the original and its duplicate
OneSplitPaired ==
  [][FanRepairReturns
       => \A passes \in {FanPasses} :
            /\ Splits(passes) = {} => result'.split_vertices = <<>>
            /\ Cardinality(Splits(passes)) = 1 => PairsOfSplits(result'.split_vertices, passes)]_vars

\* the list is the vertex the call was made for, followed by the duplicates
\* in the order of their creation
OriginalThenDuplicates ==
  [][FanRepairReturns
       => \A passes \in {FanPasses} :
            Splits(passes) # {}
              => result'.split_vertices
                   = <<last'.args[1]>>
                       \o [k \in 1..Cardinality(Splits(passes)) |->
                             passes[CHOOSE i \in Splits(passes) :
                                      Cardinality({j \in Splits(passes) : j <= i}) = k].inserted]]_vars

(* ---------------- two vertices over one ring ---------------- *)
MaxSharedRing == 4

\* the second apex, on the other side of the ring from FanCenter
SharedApex == FanPoints[7]

\* a closed fan around FanCenter over the first n of the ring positions
SharedStar ==
  \E n \in 3..MaxSharedRing :
    /\ last.op = "new"
    /\ Bind(extend_with(mesh, <<FanCenter>> \o SubSeq(FanPoints, 1, n), StarMatrices[1], StarScalar, 0),
            LAMBDA r : DoFixture([m |-> r.m, ret |-> r.ret], "extend_with", <<n>>))

\* the boundary halfedges between two ring vertices
RingBoundary(m) ==
  {h \in DOMAIN m.halfedges :
     /\ is_boundary(m, h)
     /\ m.positions[EndOf(m, h)] \notin {FanCenter, SharedApex}
     /\ m.positions[start_vertex(m, h)] \notin {FanCenter, SharedApex}}

\* a face from a boundary edge of the ring to the second apex: the first one
\* inserts the apex, the later ones name it
SharedAttach ==
  /\ last.op \in {"extend_with", "create_face_from_halfedge_and_position",
                  "create_face_from_halfedge_and_vertex"}
  /\ \E h \in RingBoundary(mesh) :
       IF last.op = "extend_with"
       THEN DoFixture(create_face_from_halfedge_and_position(mesh, h, SharedApex),
                      "create_face_from_halfedge_and_position", <<h, mesh.nv + 1>>)
       ELSE DoFixture(create_face_from_halfedge_and_vertex(mesh, h, last.args[2]),
                      "create_face_from_halfedge_and_vertex", <<h, last.args[2]>>)

SharedMerge ==
  \E v1 \in LiveV, v2 \in LiveV, rev \in BOOLEAN, debug \in BOOLEAN, late \in BOOLEAN :
    /\ last.op \in {"create_face_from_halfedge_and_position", "create_face_from_halfedge_and_vertex"}
    /\ v1 # v2
    /\ DoFixture(merge_vertices_one_rings(mesh, v1, v2, FlipThresholdSqr, {}, {}, rev, debug, late),
                 "merge_vertices_one_rings", <<v1, v2, rev, debug, late>>)

NextShared == SharedStar \/ SharedAttach \/ SharedMerge

SpecShared == Init /\ [][NextShared]_vars

(* ---------------- C33 ---------------- *)
\* the two one-rings as merge_vertices_one_rings collects them
MergedRings(m, v1, v2) == <<RingVertices(m, v1), Reverse(RingVertices(m, v2))>>

MergeCall == last'.op = "merge_vertices_one_rings" /\ calls' = calls + 1

\* C33: merge_vertices_one_rings terminates for every pair of vertices whose
\* one-rings have at least 3 vertices each, also when every vertex of the
\* first one-ring belongs to the second one-ring
C33_MergeTerminates ==
  [][MergeCall
       => \A rings \in {MergedRings(mesh, last'.args[1], last'.args[2])} :
            Len(rings[1]) >= 3 /\ Len(rings[2]) >= 3 => mesh'.status # "hang"]_vars

\* the merge returns whenever some vertex of the first one-ring is not in the
\* second one-ring
MergeTerminatesUnlessContained ==
  [][MergeCall
       => \A rings \in {MergedRings(mesh, last'.args[1], last'.args[2])} :
            ~(Range(rings[1]) \subseteq Range(rings[2])) => mesh'.status # "hang"]_vars

\* the merge never returns when the first one-ring has at least 3 vertices,
\* all of them in the second one-ring
ContainedRingNeverReturns ==
  [][MergeCall
       => \A rings \in {MergedRings(mesh, last'.args[1], last'.args[2])} :
            Len(rings[1]) >= 3 /\ Range(rings[1]) \subseteq Range(rings[2])
              => mesh'.status = "hang"]_vars

(* ---------------- the collapse gate (ops/collapse.rs) ---------------- *)
\* the coordinate 1.0 of the collapse test in the units of the model
CollapseUnit == 8

Sub2(p, q) == <<p[1] - q[1], p[2] - q[2]>>
Cross2(p, q) == p[1] * q[2] - p[2] * q[1]
LengthSqr2(p) == p[1] * p[1] + p[2] * p[2]

\* `.outgoing_halfedges(self).skip(2).filter_map(..end_vertex)`
SkippedEnds(m, v) ==
  MapSeq(SelectSeq(SubSeq(VertexOutgoing(m, v), 3, Len(VertexOutgoing(m, v))),
                   LAMBDA h : Has(m.halfedges, h)),
         LAMBDA h : EndOf(m, h))

\* a normal of the plane mesh: its z component is 1 or -1, or it is NaN (the
\* normalized cross product of a face without area)
Normal(some, nan, z) == [some |-> some, nan |-> nan, z |-> z]

\* Face::normal
FaceNormal(m, face_id) ==
  Bind(MapSeq(SelectSeq(FaceVertexSeq(m, face_id), LAMBDA v : Has(m.positions, v)),
              LAMBDA v : m.positions[v]), LAMBDA positions :
    IF Len(positions) < 3 THEN Normal(FALSE, FALSE, 0)
    ELSE Bind(Cross2(Sub2(positions[2], positions[1]), Sub2(positions[3], positions[1])),
              LAMBDA c : Normal(TRUE, c = 0, IF c > 0 THEN 1 ELSE IF c < 0 THEN -1 ELSE 0)))

\* `normal += face.normal(self)?` for the face of a halfedge, if it has one
AddFaceNormal(m, normal, he_id) ==
  IF ~normal.some \/ FaceOf(m, he_id) = None THEN normal
  ELSE IF ~Has(m.faces, FaceOf(m, he_id)) THEN Normal(FALSE, FALSE, 0)
  ELSE Bind(FaceNormal(m, FaceOf(m, he_id)), LAMBDA n :
         Normal(n.some, normal.nan \/ n.nan, normal.z + n.z))

\* diff.normalize().cross(prev_diff).dot(normal) < 0.1 with prev_diff
\* normalized (first round) or not (later rounds); the vectors are twice the
\* differences; a comparison with NaN is false
TurnsBack(diff, prev_diff, normal, first) ==
  /\ ~normal.nan
  /\ LengthSqr2(diff) # 0
  /\ first => LengthSqr2(prev_diff) # 0
  /\ \/ Cross2(diff, prev_diff) * normal.z <= 0
     \/ 100 * Cross2(diff, prev_diff) * Cross2(diff, prev_diff)
          < (IF first THEN LengthSqr2(prev_diff) ELSE 4 * CollapseUnit * CollapseUnit)
              * LengthSqr2(diff)

\* the loop over the neighbours; centre2 is twice the centre
RECURSIVE NeighboursAllow(_, _, _, _, _, _, _)
NeighboursAllow(m, neighbours, i, centre2, prev_diff, normal, min_length_squared) ==
  IF i > Len(neighbours) THEN TRUE
  ELSE IF ~Has(m.positions, neighbours[i]) THEN FALSE
  ELSE Bind(Sub2(<<2 * m.positions[neighbours[i]][1], 2 * m.positions[neighbours[i]][2]>>, centre2),
            LAMBDA diff :
    IF LengthSqr2(diff) > 4 * 5 * min_length_squared THEN FALSE
    ELSE IF TurnsBack(diff, prev_diff, normal, i = 1) THEN FALSE
    ELSE NeighboursAllow(m, neighbours, i + 1, centre2, diff, normal, min_length_squared))

\* can_collapse_edge_inner from the neighbours on
GateGeometry(m, he_id, start_vertex_id, end_vertex_id, neighbours, min_length_squared) ==
  IF neighbours = <<>> THEN FALSE
  ELSE IF ~Has(m.positions, start_vertex_id) \/ ~Has(m.positions, end_vertex_id) THEN FALSE
  ELSE IF ~Has(m.positions, neighbours[Len(neighbours)]) THEN FALSE
  ELSE Bind(<<m.positions[start_vertex_id][1] + m.positions[end_vertex_id][1],
              m.positions[start_vertex_id][2] + m.positions[end_vertex_id][2]>>, LAMBDA centre2 :
       Bind(AddFaceNormal(m, AddFaceNormal(m, Normal(TRUE, FALSE, 0), he_id), Twin(m, he_id)),
            LAMBDA sum :
         IF ~sum.some THEN FALSE
         ELSE IF ~sum.nan /\ sum.z = 0 THEN FALSE
         ELSE NeighboursAllow(
                m, neighbours, 1, centre2,
                Sub2(<<2 * m.positions[neighbours[Len(neighbours)]][1],
                       2 * m.positions[neighbours[Len(neighbours)]][2]>>, centre2),
                Normal(TRUE, sum.nan, IF sum.z > 0 THEN 1 ELSE -1), min_length_squared)))

\* a face loop read by the gate never ends
GateFaceHangs(m, he_id) ==
  \E h \in {he_id, Twin(m, he_id)} :
    /\ FaceOf(m, h) # None
    /\ Has(m.faces, FaceOf(m, h))
    /\ FaceHalfedgesHangs(m, FaceOf(m, h))

\* a gate that also resets the canonical outgoing halfedge of every other
\* vertex to the first halfedge of its adjacency list
can_collapse_edge_resetting(m, halfedge_id, min_length_squared) ==
  IF ~Has(m.halfedges, halfedge_id) \/ start_vertex(m, halfedge_id) = None
  THEN [m |-> m, ret |-> FALSE]
  ELSE IF ~Has(m.vertices, start_vertex(m, halfedge_id)) \/ ~Has(m.vertices, EndOf(m, halfedge_id))
  THEN [m |-> m, ret |-> FALSE]
  ELSE Bind([m EXCEPT !.vertices =
               [v \in DOMAIN m.vertices |->
                  IF v = EndOf(m, halfedge_id) THEN [outgoing_halfedge |-> Twin(m, halfedge_id)]
                  ELSE IF v = start_vertex(m, halfedge_id) THEN [outgoing_halfedge |-> halfedge_id]
                  ELSE IF ListOf(m, v) # <<>> THEN [outgoing_halfedge |-> Head(ListOf(m, v))]
                  ELSE m.vertices[v]]], LAMBDA m2 :
         [m |-> m2,
          ret |-> GateGeometry(m2, halfedge_id, start_vertex(m, halfedge_id), EndOf(m, halfedge_id),
                               SkippedEnds(m2, start_vertex(m, halfedge_id))
                                 \o SkippedEnds(m2, EndOf(m, halfedge_id)),
                               min_length_squared)])

\* can_collapse_edge_inner(..).is_some(), with the mesh it leaves: the start
\* vertex gets the halfedge and the end vertex the twin as outgoing halfedge
\* before the checks that follow
can_collapse_edge(m, halfedge_id, min_length_squared) ==
  IF ~Has(m.halfedges, halfedge_id) \/ start_vertex(m, halfedge_id) = None
  THEN [m |-> m, ret |-> FALSE]
  ELSE IF ~Has(m.vertices, start_vertex(m, halfedge_id)) THEN [m |-> m, ret |-> FALSE]
  ELSE Bind([m EXCEPT !.vertices[start_vertex(m, halfedge_id)].outgoing_halfedge = halfedge_id],
            LAMBDA m1 :
    IF VertexOutgoingHangs(m1, start_vertex(m, halfedge_id)) THEN [m |-> Hang(m1), ret |-> FALSE]
    ELSE IF ~Has(m1.vertices, EndOf(m, halfedge_id)) THEN [m |-> m1, ret |-> FALSE]
    ELSE Bind([m1 EXCEPT !.vertices[EndOf(m, halfedge_id)].outgoing_halfedge = Twin(m, halfedge_id)],
              LAMBDA m2 :
      IF VertexOutgoingHangs(m2, EndOf(m, halfedge_id)) THEN [m |-> Hang(m2), ret |-> FALSE]
      ELSE IF GateFaceHangs(m2, halfedge_id) THEN [m |-> Hang(m2), ret |-> FALSE]
      ELSE [m |-> m2,
            ret |-> GateGeometry(m2, halfedge_id, start_vertex(m, halfedge_id), EndOf(m, halfedge_id),
                                 SkippedEnds(m1, start_vertex(m, halfedge_id))
                                   \o SkippedEnds(m2, EndOf(m, halfedge_id)),
                                 min_length_squared)]))

(* ---------------- collapse_until_edges_above_min_length (ops/collapse.rs) ---------------- *)
\* Halfedge::length_squared: zero for a halfedge without both positions
HalfedgeLengthSqr(m, h) ==
  IF start_vertex(m, h) = None \/ ~Has(m.positions, start_vertex(m, h)) \/ ~Has(m.positions, EndOf(m, h))
  THEN 0
  ELSE LengthSqr2(Sub2(m.positions[start_vertex(m, h)], m.positions[EndOf(m, h)]))

\* the first loop: a halfedge is kept unless its twin was kept before it
RECURSIVE DedupHalfedges(_, _, _, _)
DedupHalfedges(m, order, i, dedup_halfedges) ==
  IF i > Len(order) THEN dedup_halfedges
  ELSE DedupHalfedges(m, order, i + 1,
         IF Twin(m, order[i]) # None /\ Twin(m, order[i]) \in dedup_halfedges
         THEN dedup_halfedges ELSE dedup_halfedges \cup {order[i]})

\* the scan of one round: the first halfedge in the order of the map that is
\* shorter than the ones before it and passes the gate; the gate runs on the
\* mesh itself
RECURSIVE ScanCandidates(_, _, _, _, _, _)
ScanCandidates(m, halfedges_to_collapse, order, i, min_he_id, min_length_squared) ==
  IF i > Len(order) \/ ~Ok(m) THEN [m |-> m, ret |-> min_he_id]
  ELSE IF min_he_id # None /\ halfedges_to_collapse[order[i]] >= halfedges_to_collapse[min_he_id]
  THEN ScanCandidates(m, halfedges_to_collapse, order, i + 1, min_he_id, min_length_squared)
  ELSE Bind(can_collapse_edge(m, order[i], min_length_squared), LAMBDA g :
         ScanCandidates(g.m, halfedges_to_collapse, order, i + 1,
                        IF g.ret THEN order[i] ELSE min_he_id, min_length_squared))

Without(f, S) == [k \in DOMAIN f \ S |-> f[k]]
With(f, k, v) == [j \in DOMAIN f \cup {k} |-> IF j = k THEN v ELSE f[j]]

\* the loop over the outgoing halfedges of the start vertex after a collapse
RECURSIVE Requeue(_, _, _, _, _, _)
Requeue(m, outgoing_halfedges, i, halfedges_to_collapse, selection, min_length_squared) ==
  IF i > Len(outgoing_halfedges) THEN [m |-> m, map |-> halfedges_to_collapse, sel |-> selection]
  ELSE IF ~Has(m.halfedges, outgoing_halfedges[i])
  THEN Requeue(m, outgoing_halfedges, i + 1, halfedges_to_collapse, selection, min_length_squared)
  ELSE IF FaceOf(m, outgoing_halfedges[i]) # None /\ Has(m.faces, FaceOf(m, outgoing_halfedges[i]))
          /\ FaceHalfedgesHangs(m, FaceOf(m, outgoing_halfedges[i]))
  THEN [m |-> Hang(m), map |-> halfedges_to_collapse, sel |-> selection]
  ELSE Bind(outgoing_halfedges[i], LAMBDA halfedge_id :
         Requeue(m, outgoing_halfedges, i + 1,
                 Without(IF HalfedgeLengthSqr(m, halfedge_id) < min_length_squared
                         THEN With(halfedges_to_collapse, halfedge_id, HalfedgeLengthSqr(m, halfedge_id))
                         ELSE Without(halfedges_to_collapse, {halfedge_id}),
                         {Twin(m, halfedge_id)}),
                 [selection EXCEPT !.halfedges = @ \cup {halfedge_id}],
                 min_length_squared))

\* the rest of a round after collapse_edge has returned
AfterCollapse(r, min_he_id, start_vertex_id, halfedges_to_collapse, selection, min_length_squared) ==
  IF ~Ok(r.m) THEN [m |-> r.m, map |-> halfedges_to_collapse, sel |-> selection]
  ELSE IF start_vertex_id # None /\ Has(r.m.vertices, start_vertex_id)
          /\ VertexOutgoingHangs(r.m, start_vertex_id)
  THEN [m |-> Hang(r.m), map |-> halfedges_to_collapse, sel |-> selection]
  ELSE Requeue(r.m,
               IF start_vertex_id # None /\ Has(r.m.vertices, start_vertex_id)
               THEN VertexOutgoing(r.m, start_vertex_id) ELSE <<>>,
               1,
               Without(halfedges_to_collapse, {min_he_id} \cup Range(r.ret.halfedges)),
               Selection(selection.vertices \ Range(r.ret.vertices),
                         selection.halfedges \ Range(r.ret.halfedges),
                         selection.faces \ Range(r.ret.faces)),
               min_length_squared)

\* what the call hands back: the selection as it leaves it, and for every
\* round the halfedge it collapsed with what collapse_edge returned
Collapsed(selection, rounds) == [selection |-> selection, rounds |-> rounds]

\* `while !halfedges_to_collapse.is_empty()`: a round that starts from a mesh
\* and a map that an earlier round started from repeats that round for ever
RECURSIVE CollapseRounds(_, _, _, _, _, _, _, _)
CollapseRounds(m, halfedges_to_collapse, selection, seen, rounds, min_length_squared, rev, debug) ==
  IF ~Ok(m) \/ DOMAIN halfedges_to_collapse = {} THEN [m |-> m, ret |-> Collapsed(selection, rounds)]
  ELSE IF <<m, halfedges_to_collapse>> \in seen THEN [m |-> Hang(m), ret |-> Collapsed(selection, rounds)]
  ELSE Bind(ScanCandidates(m, halfedges_to_collapse, HashOrder(DOMAIN halfedges_to_collapse, rev),
                           1, None, min_length_squared), LAMBDA s :
    IF ~Ok(s.m) \/ s.ret = None THEN [m |-> s.m, ret |-> Collapsed(selection, rounds)]
    ELSE Bind(collapse_edge(s.m, s.ret, rev, debug), LAMBDA r :
         Bind(AfterCollapse(r, s.ret, start_vertex(s.m, s.ret),
                            halfedges_to_collapse, selection, min_length_squared), LAMBDA a :
           CollapseRounds(a.m, a.map, a.sel, seen \cup {<<m, halfedges_to_collapse>>},
                          Append(rounds, [halfedge |-> s.ret, removed |-> r.ret]),
                          min_length_squared, rev, debug))))

collapse_until_edges_above_min_length(m, min_length_squared, selection, rev, debug) ==
  Bind(resolve_to_halfedges(selection, m), LAMBDA r :
    IF ~Ok(r.m) THEN [m |-> r.m, ret |-> Collapsed(selection, <<>>)]
    ELSE Bind(DedupHalfedges(m, HashOrder(r.ret, rev), 1, {}), LAMBDA dedup_halfedges :
      IF ~(dedup_halfedges \subseteq DOMAIN m.halfedges)
      THEN [m |-> Panic(m), ret |-> Collapsed(selection, <<>>)]
      ELSE CollapseRounds(
             m,
             [h \in {k \in dedup_halfedges : HalfedgeLengthSqr(m, k) < min_length_squared}
                |-> HalfedgeLengthSqr(m, h)],
             selection, {}, <<>>, min_length_squared, rev, debug)))

(* ---------------- the collapse driver on the collapse fixture ---------------- *)
\* a third face over the first two: a boundary halfedge closed with the
\* vertex that is not of the face on its other side
FixtureClose ==
  /\ Building
  /\ mesh.nf = 2
  /\ \E h \in {k \in DOMAIN mesh.halfedges : is_boundary(mesh, k)}, v \in DOMAIN mesh.vertices :
       /\ v \notin Range(FaceVertexSeq(mesh, FaceOf(mesh, Twin(mesh, h))))
       /\ DoFixture(create_face_from_halfedge_and_vertex(mesh, h, v),
                    "create_face_from_halfedge_and_vertex", <<h, v>>)

\* thresholds just above the length of an edge of the mesh
DriverThresholds(m) == {HalfedgeLengthSqr(m, h) + 1 : h \in DOMAIN m.halfedges}

\* one halfedge with the threshold just above its length, or every face of
\* the mesh with each threshold
DriverInputs(m) ==
  {<<Selection({}, {h}, {}), HalfedgeLengthSqr(m, h) + 1>> : h \in DOMAIN m.halfedges}
    \cup {<<Selection({}, {}, DOMAIN m.faces), t>> : t \in DriverThresholds(m)}

CollapseUntil ==
  /\ calls - mesh.nf < MaxCollapses
  /\ last.op # "collapse_until_edges_above_min_length"
  /\ mesh.nf > 0
  /\ \E input \in DriverInputs(mesh), rev, debug \in BOOLEAN :
       DoFixture(collapse_until_edges_above_min_length(mesh, input[2], input[1], rev, debug),
                 "collapse_until_edges_above_min_length",
                 <<input[2], input[1], rev, debug>>)

FixtureCollapse ==
  /\ last.op # "collapse_until_edges_above_min_length"
  /\ CollapseEdge

NextUntil ==
  \/ FixtureSeed
  \/ FixtureGrow
  \/ FixtureBridge
  \/ FixtureClose
  \/ FixtureCollapse
  \/ CollapseUntil

SpecUntil == Init /\ [][NextUntil]_vars

\* C34: collapse_until_edges_above_min_length terminates for every mesh and
\* selection, also when the collapse_edge call for the chosen candidate
\* returns without removing anything: no call is left in a round it repeats
\* for ever or in a traversal that never ends
C34_DriverTerminates ==
  last.op = "collapse_until_edges_above_min_length" => mesh.status # "hang"

NothingRemoved(removed) ==
  removed.vertices = <<>> /\ removed.halfedges = <<>> /\ removed.faces = <<>>

(* ---------------- the collapse gate as a query ---------------- *)
\* the gate on a halfedge of the fixture as it is built, with a threshold of
\* the mesh
GateCheck ==
  /\ Building
  /\ \E h \in DOMAIN mesh.halfedges, min_length_squared \in DriverThresholds(mesh) :
       DoFixture(can_collapse_edge(mesh, h, min_length_squared), "can_collapse_edge",
                 <<h, min_length_squared>>)

NextGate ==
  \/ FixtureSeed
  \/ FixtureGrow
  \/ FixtureBridge
  \/ FixtureClose
  \/ GateCheck

SpecGate == Init /\ [][NextGate]_vars

GateReturns == last'.op = "can_collapse_edge" /\ calls' = calls + 1 /\ Ok(mesh')

\* C39: can_collapse_edge is a pure query: whether it accepts or rejects the
\* halfedge, it changes no canonical outgoing halfedge of a vertex and no
\* other part of the mesh
C39_GateIsPure == [][GateReturns => mesh' = mesh]_vars

\* C39, amended: the gate changes nothing but the canonical outgoing
\* halfedges of the start vertex and the end vertex of the halfedge
GateWritesOnlyEnds ==
  [][GateReturns =>
       /\ [mesh' EXCEPT !.vertices = mesh.vertices] = mesh
       /\ \A v \in DOMAIN mesh.vertices :
            mesh'.vertices[v] # mesh.vertices[v]
              => v \in {start_vertex(mesh, last'.args[1]), EndOf(mesh, last'.args[1])}]_vars

\* a gate that accepted a halfedge that is not the first of the adjacency
\* list of its start vertex and has become its canonical outgoing halfedge
GateMovedCanonical ==
  /\ last.op = "can_collapse_edge"
  /\ result
  /\ calls > mesh.nf
  /\ mesh.vertices[start_vertex(mesh, last.args[1])].outgoing_halfedge = last.args[1]
  /\ Head(ListOf(mesh, start_vertex(mesh, last.args[1]))) # last.args[1]

\* the gate leaves the halfedge and its twin as the canonical outgoing
\* halfedges of their start vertices whenever it accepts
GateAcceptsAfterWrites ==
  [][GateReturns /\ result' =>
       /\ mesh'.vertices[start_vertex(mesh, last'.args[1])].outgoing_halfedge = last'.args[1]
       /\ mesh'.vertices[EndOf(mesh, last'.args[1])].outgoing_halfedge = Twin(mesh, last'.args[1])]_vars

(* ---------------- the halfedges collapse_edge reports ---------------- *)
CollapseReturns == last'.op = "collapse_edge" /\ calls' = calls + 1 /\ Ok(mesh')

\* the halfedges that were live before the call and are not after it
HalfedgesGone == DOMAIN mesh.halfedges \ DOMAIN mesh'.halfedges

\* C37: the halfedge id list collapse_edge returns has no id twice and holds
\* exactly the halfedges that were live before the call and are not live
\* after it, so its length is the decrease of the number of halfedges
C37_RemovedHalfedgesExact ==
  [][CollapseReturns =>
       /\ Cardinality(Range(result'.halfedges)) = Len(result'.halfedges)
       /\ Range(result'.halfedges) = HalfedgesGone
       /\ Len(result'.halfedges) = Cardinality(DOMAIN mesh.halfedges) - Cardinality(DOMAIN mesh'.halfedges)]_vars

\* every halfedge that is gone after the call is in the list
GoneHalfedgesReported == [][CollapseReturns => HalfedgesGone \subseteq Range(result'.halfedges)]_vars

\* the twin of the collapsed halfedge is the only id the list holds twice
OnlyTwinTwice ==
  [][CollapseReturns =>
       \A i, j \in DOMAIN result'.halfedges :
         (i # j /\ result'.halfedges[i] = result'.halfedges[j])
           => result'.halfedges[i] = Twin(mesh, last'.args[1])]_vars

(* ---------------- a face refused for an edge with two faces ---------------- *)
\* create_face_from_halfedge_and_position returned absent for a halfedge whose
\* edge has a face on both sides
RefusedForTwoFaces ==
  /\ last'.op = "create_face_from_halfedge_and_position"
  /\ calls' = calls + 1
  /\ ~result'.some
  /\ FaceOf(mesh, last'.args[1]) # None
  /\ FaceOf(mesh, Twin(mesh, last'.args[1])) # None

\* C38: when create_face_from_halfedge_and_position returns absent because the
\* edge has a face on both sides, the mesh is unchanged: no vertex, position,
\* adjacency-list entry, halfedge or face has been added
C38_RefusalLeavesMesh == [][RefusedForTwoFaces => mesh' = mesh]_vars

\* such a call adds no halfedge and no face and changes no vertex that was
\* there
RefusalKeepsFacesAndEdges ==
  [][RefusedForTwoFaces =>
       /\ mesh'.halfedges = mesh.halfedges
       /\ mesh'.faces = mesh.faces
       /\ \A v \in DOMAIN mesh.vertices :
            /\ mesh'.vertices[v] = mesh.vertices[v]
            /\ mesh'.positions[v] = mesh.positions[v]
            /\ mesh'.outgoing_halfedges[v] = mesh.outgoing_halfedges[v]]_vars

\* such a call leaves one new vertex at the given position, without any
\* halfedge
RefusalLeavesVertex ==
  [][RefusedForTwoFaces =>
       /\ DOMAIN mesh'.vertices = DOMAIN mesh.vertices \cup {mesh.nv + 1}
       /\ mesh'.positions[mesh.nv + 1] = last'.args[2]
       /\ mesh'.vertices[mesh.nv + 1].outgoing_halfedge = None
       /\ mesh'.outgoing_halfedges[mesh.nv + 1] = <<>>]_vars

(* ---------------- coincident halfedges (ops/cleanup/mod.rs) ---------------- *)
\* the test remove_degenerate_edges makes: two outgoing halfedges of one
\* vertex of a fan whose ring vertices may lie on one another
ShareCheck ==
  /\ last.op = "extend_with"
  /\ \E v \in DOMAIN mesh.vertices :
       \E he_id1, he_id2 \in Range(VertexOutgoing(mesh, v)) :
         DoFixture([m |-> mesh, ret |-> halfedges_share_all_vertices(mesh, he_id1, he_id2)],
                   "halfedges_share_all_vertices", <<he_id1, he_id2>>)

NextCoincide ==
  \/ FanWith
  \/ ShareCheck

SpecCoincide == Init /\ [][NextCoincide]_vars

\* the two halfedges run from the same position to the same position
SameRun(m, h1, h2) ==
  /\ m.positions[start_vertex(m, h1)] = m.positions[start_vertex(m, h2)]
  /\ m.positions[EndOf(m, h1)] = m.positions[EndOf(m, h2)]

\* C36: halfedges_share_all_vertices is true whenever the two halfedges run
\* from the same start position to the same end position, also when their
\* end points are different vertices at the same positions
C36_SamePositionsShare ==
  (last.op = "halfedges_share_all_vertices" /\ SameRun(mesh, last.args[1], last.args[2]))
    => result

\* the test is true exactly for halfedges with the same start vertex and the
\* same end vertex
SharesExactlySameVertices ==
  last.op = "halfedges_share_all_vertices"
    => (result <=> /\ start_vertex(mesh, last.args[1]) = start_vertex(mesh, last.args[2])
                   /\ EndOf(mesh, last.args[1]) = EndOf(mesh, last.args[2]))

\* two halfedges for which the test is true run from the same position to
\* the same position
SharesImplySameRun ==
  (last.op = "halfedges_share_all_vertices" /\ result)
    => SameRun(mesh, last.args[1], last.args[2])

(* ---------------- planned faces without an edge (ops/merge.rs) ---------------- *)
\* none of the three vertex pairs of a planned face has a halfedge
Edgeless(m, f) ==
  /\ halfedge_from_to(m, f[1], f[2]).ret = None
  /\ halfedge_from_to(m, f[2], f[3]).ret = None
  /\ halfedge_from_to(m, f[3], f[1]).ret = None

\* the merge up to its insertion loop: the planned faces and the mesh after
\* delete_neighbour_faces
InsertionStart(m, vertex_id1, vertex_id2, rev, debug, late) ==
  Bind(MergeAcc(m, MergeVerticesOneRing(<<>>, <<>>, <<>>, <<>>, <<>>, <<>>), {}, {}), LAMBDA a :
  Bind(compute_range_pairs_to_connect(m, RingVertices(m, vertex_id1), Reverse(RingVertices(m, vertex_id2)), FlipThresholdSqr, a.res, rev, debug, late), LAMBDA c :
    IF ~Ok(c.m) \/ c.pairs = <<>> THEN [faces |-> <<>>, acc |-> a]
    ELSE Bind(plan_new_faces(c.pairs, RingVertices(m, vertex_id1), Reverse(RingVertices(m, vertex_id2))), LAMBDA p :
      IF p.panic THEN [faces |-> <<>>, acc |-> a]
      ELSE [faces |-> p.faces,
            acc |-> delete_neighbour_faces([a EXCEPT !.m = c.m, !.res = c.res],
                                           vertex_id1, vertex_id2, rev)])))

\* the planned faces that have no edge when the loop comes to them and for
\* which the loop adds a face or a halfedge
RECURSIVE EdgelessCreated(_, _, _, _, _)
EdgelessCreated(a, planned_faces, i, one_ring_set1, one_ring_set2) ==
  IF i > Len(planned_faces) \/ a.done \/ ~Ok(a.m) THEN {}
  ELSE Bind(InsertOne(a, planned_faces[i], one_ring_set1, one_ring_set2), LAMBDA b :
         (IF Edgeless(a.m, planned_faces[i]) /\ (b.m.nf > a.m.nf \/ b.m.nh > a.m.nh)
          THEN {i} ELSE {})
           \cup EdgelessCreated(b, planned_faces, i + 1, one_ring_set1, one_ring_set2))

\* the planned faces that have no edge when the loop comes to them
RECURSIVE EdgelessPlanned(_, _, _, _, _)
EdgelessPlanned(a, planned_faces, i, one_ring_set1, one_ring_set2) ==
  IF i > Len(planned_faces) \/ a.done \/ ~Ok(a.m) THEN {}
  ELSE (IF Edgeless(a.m, planned_faces[i]) THEN {i} ELSE {})
         \cup EdgelessPlanned(InsertOne(a, planned_faces[i], one_ring_set1, one_ring_set2),
                              planned_faces, i + 1, one_ring_set1, one_ring_set2)

\* a merge that gets as far as its two rings
MergeOfRings ==
  /\ MergeCall
  /\ Has(mesh.vertices, last'.args[1]) /\ Has(mesh.vertices, last'.args[2])
  /\ RingStatus(mesh, last'.args[1]) = "ok" /\ RingStatus(mesh, last'.args[2]) = "ok"
  /\ Len(RingVertices(mesh, last'.args[1])) >= 3 /\ Len(RingVertices(mesh, last'.args[2])) >= 3

MergeStart ==
  InsertionStart(mesh, last'.args[1], last'.args[2], last'.args[3], last'.args[4], last'.args[5])

\* C35: a planned triangle none of whose three vertex pairs has an edge when
\* the merge comes to it is skipped: no face and no halfedge is created for it
C35_EdgelessSkipped ==
  [][MergeOfRings =>
       \A s \in {MergeStart} :
         EdgelessCreated(s.acc, s.faces, 1, Range(RingVertices(mesh, last'.args[1])),
                         Range(RingVertices(mesh, last'.args[2]))) = {}]_vars

\* every planned triangle without an edge gets its face
EdgelessAlwaysCreated ==
  [][MergeOfRings =>
       \A s \in {MergeStart} :
         EdgelessCreated(s.acc, s.faces, 1, Range(RingVertices(mesh, last'.args[1])),
                         Range(RingVertices(mesh, last'.args[2])))
           = EdgelessPlanned(s.acc, s.faces, 1, Range(RingVertices(mesh, last'.args[1])),
                             Range(RingVertices(mesh, last'.args[2])))]_vars

(* ---------------- the index before the run of shared vertices (ops/merge.rs) ---------------- *)
\* the indices at which the loop of find_start_indices ends: the first
\* vertex of ring 1 after the shared vertex v_id that is not shared
RunEnd(ring1, ring2, common, v_id) ==
  SkipShared(ring1, Len(ring2), common, FirstIndex(ring1, LAMBDA v : v = v_id) - 1,
             FirstIndex(ring2, LAMBDA v : v = v_id) - 1, Len(ring1))

\* a merge of two vertices whose rings share vertices, other than two of them
\* (for which the shortcut may return before the start indices are looked for)
MergeSharing ==
  /\ MergeOfRings
  /\ Cardinality(Range(RingVertices(mesh, last'.args[1])) \cap Range(RingVertices(mesh, last'.args[2])))
       \notin {0, 2}

\* what find_start_indices returns against where its loop ended
StartIsPredecessor(ring1, ring2, common, rev, debug, late) ==
  \A s \in {RunEnd(ring1, ring2, common, HashOrder(common, rev)[1])} :
    ~s.hang =>
      \A i \in {find_start_indices(mesh, ring1, ring2, common, rev, debug, late)} :
        /\ i.status = "ok"
        /\ i.idx1 = (s.idx1 + Len(ring1) - 1) % Len(ring1)
        /\ i.idx2 = (s.idx2 + Len(ring2) - 1) % Len(ring2)

\* C40: the ring-index arithmetic of the merge never underflows or wraps: for
\* every index i at which the run of shared vertices ends, also i = 0, the
\* index find_start_indices computes is (i + len - 1) mod len
C40_PredecessorWraps ==
  [][MergeSharing =>
       \A ring1 \in {RingVertices(mesh, last'.args[1])}, ring2 \in {Reverse(RingVertices(mesh, last'.args[2]))} :
         StartIsPredecessor(ring1, ring2, Range(ring1) \cap Range(ring2),
                            last'.args[3], last'.args[4], last'.args[5])]_vars

\* the computed index is the predecessor whenever the run ends at an index
\* above 0 on both rings
PredecessorAboveZero ==
  [][MergeSharing =>
       \A ring1 \in {RingVertices(mesh, last'.args[1])}, ring2 \in {Reverse(RingVertices(mesh, last'.args[2]))} :
         \A s \in {RunEnd(ring1, ring2, Range(ring1) \cap Range(ring2),
                          HashOrder(Range(ring1) \cap Range(ring2), last'.args[3])[1])} :
           (~s.hang /\ s.idx1 > 0 /\ s.idx2 > 0)
             => StartIsPredecessor(ring1, ring2, Range(ring1) \cap Range(ring2),
                                   last'.args[3], last'.args[4], last'.args[5])]_vars

\* with overflow checks, a run that ends at index 0 on a ring ends the merge
\* in a panic
ZeroPanicsWithChecks ==
  [][(MergeSharing /\ last'.args[4]) =>
       \A ring1 \in {RingVertices(mesh, last'.args[1])}, ring2 \in {Reverse(RingVertices(mesh, last'.args[2]))} :
         \A s \in {RunEnd(ring1, ring2, Range(ring1) \cap Range(ring2),
                          HashOrder(Range(ring1) \cap Range(ring2), last'.args[3])[1])} :
           (~s.hang /\ (s.idx1 = 0 \/ s.idx2 = 0)) => mesh'.status = "panic"]_vars

====
